---- MODULE Spec2Model ----
(***************************************************************************)
(* A model of drawbridge's reconciliation engine: the dispatcher           *)
(* (cli/dispatch.rs), the firewall capability (cloud/mem/firewall.rs,      *)
(* cloud/aws/firewall.rs) and the instance capability                      *)
(* (cloud/mem/instance.rs, cloud/aws/instance.rs).                         *)
(***************************************************************************)
EXTENDS Integers, Sequences, FiniteSets, TLC

(***************************************************************************)
(* Bounds of the model.                                                    *)
(***************************************************************************)
\* longest --protocol list of an Open command
MaxList == 2
\* most ingress rules a firewall holds before the first command
MaxExisting == 2
\* number of commands dispatched one after the other
MaxRuns == 2

(***************************************************************************)
(* Ingress rule model (iprules.rs).                                        *)
(***************************************************************************)
IpPortRange(from, to) == [from |-> from, to |-> to]

Tcp(range) == [tag |-> "tcp", range |-> range]

Udp(range) == [tag |-> "udp", range |-> range]

IpIngressRule(net, protocol) == [net |-> net, protocol |-> protocol]

\* the networks an operator names in this model
Cidrs == {"1.1.0.0/16", "9.9.9.9/32"}

\* the --source lists of an Open command: none, one, one twice, two in either order
CidrLists ==
    {<<>>, <<"9.9.9.9/32">>, <<"9.9.9.9/32", "9.9.9.9/32">>, <<"1.1.0.0/16", "9.9.9.9/32">>}

\* the protocols an operator names in this model: same range, different tag
Protocols == {Tcp(IpPortRange(22, 22)), Udp(IpPortRange(22, 22))}

\* a protocol only found on firewalls: tag of one, range unlike both
StrayProtocols == {Tcp(IpPortRange(22, 80))}

Rules == {IpIngressRule(c, p) : c \in Cidrs, p \in Protocols \cup StrayProtocols}

\* the rules a firewall may hold before the first command
ExistingRules ==
    {IpIngressRule("9.9.9.9/32", Tcp(IpPortRange(22, 22)))} \cup {IpIngressRule(c, p) : c \in Cidrs, p \in StrayProtocols}

None == [none |-> TRUE]

Some(x) == [some |-> x]

IsSome(o) == o # None

SeqsUpTo(S, n) == UNION {[1..k -> S] : k \in 0..n}

Range(s) == {s[i] : i \in DOMAIN s}

(***************************************************************************)
(* Resources of the cloud.                                                 *)
(***************************************************************************)
FwIds == {1, 2}

Names == {"a", "b"}

\* the name lists a command may carry ("c" names nothing)
NameSets == {{"a"}, {"a", "b"}, {"c"}}

InstIds == {1, 2}

ZoneIds == {1, 2, 3}

\* the instance types of the tests
InstanceTypes == {"t2.medium", "t2.large"}

\* all orders in which a set of ids may be listed
Orders(S) == {s \in [1..Cardinality(S) -> S] : Range(s) = S}

VARIABLES
    backend,        \* "mem": in-memory doubles, "aws": provider adapters
    fwName,         \* firewall id -> name
    memRules,       \* MemFirewallState.rules of each firewall
    sgPerms,        \* the provider's ip permissions of each security group
    cmd,            \* the command being dispatched
    pc,             \* the dispatcher's position
    todo,           \* the firewalls (instances) still to process, the current at the head
    desired_rules,  \* dispatch: desired_rules
    existing_rules, \* sync_firewall_rules: existing_rules
    result,         \* what dispatch returned: None, or Some(Ok / Err(message))
    calls,          \* capability calls and provider requests of this dispatch, in order
    snapshot,       \* history: each firewall's rule set when this dispatch read it
    synced,         \* history: firewalls whose sync_firewall_rules returned Ok(())
    runs,           \* number of commands dispatched so far
    prev,           \* history: the previous dispatch (command, result, end state)
    instName,       \* instance id -> name
    instFqdn,       \* instance id -> None or Some(fqdn), the Fqdn tag
    addressing,     \* instance id -> the public addresses the provider gives it while running
    memInst,        \* MemInstanceState of each instance
    awsInst,        \* the provider's description of each instance
    zoneName,       \* zone id -> name
    memRecords,     \* MemDnsZoneState.records of each zone
    awsRecordSets,  \* the provider's resource record sets of each hosted zone
    state,          \* try_ensure_instance_type / ensure_running / ensure_stopped: state
    observed,       \* history: the provider's description at the latest get_state
    running_state,  \* dispatch (Command::Start): state, what ensure_running returned
    dns_zone,       \* sync_dns: dns_zone
    type_ix,        \* AwsDnsZone::unbind: position in ["A", "CNAME"]
    external,       \* whether another client of the provider acts on the instances
    displayed,      \* test_display_and_parse: v
    rendered,       \* test_display_and_parse: v.to_string()
    reparsed        \* test_display_and_parse: s.parse()

textVars == <<displayed, rendered, reparsed>>
cloudVars == <<backend, fwName, instName, instFqdn, addressing, zoneName, external, textVars>>
fwVars == <<memRules, sgPerms>>
instVars == <<memInst, awsInst>>
dnsVars == <<memRecords, awsRecordSets>>
fwLocals == <<desired_rules, existing_rules, snapshot, synced>>
instLocals == <<state, observed, running_state, dns_zone, type_ix>>
dispVars == <<cmd, pc, todo, result, calls, runs, prev>>
vars == <<cloudVars, fwVars, instVars, dnsVars, fwLocals, instLocals, dispVars>>

\* what Open and Close leave alone
notFw == <<instVars, dnsVars, instLocals>>

\* what Start and Stop leave alone
notInst == <<fwVars, fwLocals>>

Ok == [ok |-> TRUE]

Err(msg) == [err |-> msg]

(***************************************************************************)
(* cloud/aws/firewall.rs: rules as the provider stores them.               *)
(***************************************************************************)
IpPermission(proto, from, to, cidr) ==
    [ip_protocol |-> proto, from_port |-> from, to_port |-> to, cidr_ip |-> cidr]

to_ip_permission(rule) ==
    IpPermission(rule.protocol.tag, rule.protocol.range.from, rule.protocol.range.to, rule.net)

AsU16(x) == x % 65536

\* an entry of a security group that is neither tcp nor udp
IcmpPermission == IpPermission("icmp", -1, -1, "1.1.0.0/16")

\* mutant: the "udp" arm builds a Tcp protocol
parse_ip_permission_udpAsTcp(perm) ==
    LET ip_port_range == IpPortRange(AsU16(perm.from_port), AsU16(perm.to_port))
    IN  CASE perm.ip_protocol \in {"tcp", "udp"} -> Ok @@ [rule |-> IpIngressRule(perm.cidr_ip, Tcp(ip_port_range))]
          [] OTHER -> Err("unknown protocol")

\* list_ingress_rules on one ip permission: the rule, or the error
parse_ip_permission(perm) ==
    LET ip_port_range == IpPortRange(AsU16(perm.from_port), AsU16(perm.to_port))
    IN  CASE perm.ip_protocol = "tcp" -> Ok @@ [rule |-> IpIngressRule(perm.cidr_ip, Tcp(ip_port_range))]
          [] perm.ip_protocol = "udp" -> Ok @@ [rule |-> IpIngressRule(perm.cidr_ip, Udp(ip_port_range))]
          [] OTHER -> Err("unknown protocol")

(***************************************************************************)
(* cloud/mem/firewall.rs and cloud/aws/firewall.rs: the Firewall           *)
(* capability. Each operator gives the value returned and the state left.  *)
(***************************************************************************)
\* the set of rules a list of the security group's entries parses to
parsed_rules(perms) == {parse_ip_permission(p).rule : p \in {q \in perms : parse_ip_permission(q) # Err("unknown protocol")}}

list_ingress_rules(f) ==
    IF backend = "mem"
    THEN Ok @@ [rules |-> memRules[f]]
    ELSE IF \E p \in sgPerms[f] : parse_ip_permission(p) = Err("unknown protocol")
         THEN Err("unknown protocol")
         ELSE Ok @@ [rules |-> parsed_rules(sgPerms[f])]

\* MemFirewall::add_ingress_rules: insert every rule
MemAdd(state_rules, rules) == state_rules \cup rules

\* MemFirewall::remove_ingress_rules: remove every rule
MemRemove(state_rules, rules) == state_rules \ rules

\* AwsFirewall::add_ingress_rules / remove_ingress_rules: the request's ip_permissions
ip_permissions(rules) == {to_ip_permission(r) : r \in rules}

\* mutant: the request is sent whatever it holds
IsEmptyRequest_never(perms) == FALSE

\* AwsFirewall: if ip_permissions.is_empty() { return Ok(()) }
IsEmptyRequest(perms) == perms = {}

\* the provider's answer to an authorize request that succeeds
Authorize(perms, request) == perms \cup request

\* the provider's answer to a revoke request that succeeds
Revoke(perms, request) == perms \ request

\* the rules of a firewall as list_ingress_rules reports them (what the tests observe)
ActualRules(f) == IF backend = "mem" THEN memRules[f] ELSE parsed_rules(sgPerms[f])

(***************************************************************************)
(* dns/mod.rs: DnsTarget.                                                  *)
(***************************************************************************)
A(addr) == [kind |-> "A", value |-> addr]

Cname(name) == [kind |-> "CNAME", value |-> name]

\* Ipv4Addr::to_string on the addresses of the model
Ipv4Addr_to_string(addr) ==
    CASE addr = <<3, 3, 3, 1>> -> "3.3.3.1"
      [] addr = <<3, 3, 3, 2>> -> "3.3.3.2"
      [] addr = <<0, 0, 0, 1>> -> "0.0.0.1"
      [] addr = <<0, 0, 0, 2>> -> "0.0.0.2"
      [] addr = <<0, 0, 0, 0>> -> "0.0.0.0"

(***************************************************************************)
(* dns/mod.rs: names and find_authoritative_zone. A name is the sequence   *)
(* of its labels and dots, "x.example.com" being                           *)
(* <<"x", ".", "example", ".", "com">>.                                    *)
(***************************************************************************)
ExampleCom == <<"example", ".", "com">>

SubExampleCom == <<"sub", ".", "example", ".", "com">>

ExampleNet == <<"example", ".", "net">>

InstSubExampleCom == <<"inst", ".", "sub", ".", "example", ".", "com">>

InstExampleOrg == <<"inst", ".", "example", ".", "org">>

\* the names of test_find_authoritative_zone; "sub1" is <<"sub", "1">>, so that
\* "unrelated-sub1" ends with the characters, not the label, of "sub1"
Sub1ExampleCom == <<"sub", "1", ".", "example", ".", "com">>

Sub2ExampleCom == <<"sub", "2", ".", "example", ".", "com">>

UnrelatedSub1ExampleCom == <<"unrelated", ".", "sub", "1", ".", "example", ".", "com">>

\* example.com as the provider reports a hosted zone, with the dot of the root
ExampleComDot == <<"example", ".", "com", ".">>

XSub1ExampleCom == <<"x", ".", "sub", "1", ".", "example", ".", "com">>

XSub3ExampleCom == <<"x", ".", "sub", "3", ".", "example", ".", "com">>

XUnrelatedSub1ExampleCom == <<"x", ".", "unrelated-", "sub", "1", ".", "example", ".", "com">>

XExampleOrg == <<"x", ".", "example", ".", "org">>

\* other names of the zone sub.example.com
XSubExampleCom == <<"x", ".", "sub", ".", "example", ".", "com">>

YSubExampleCom == <<"y", ".", "sub", ".", "example", ".", "com">>

\* the number of bytes of a label, of a part of one, or of a dot
TokenLen(t) ==
    CASE t \in {".", "x", "y", "1", "2", "3"} -> 1
      [] t \in {"com", "net", "org", "sub"} -> 3
      [] t = "inst" -> 4
      [] t = "example" -> 7
      [] t = "unrelated" -> 9
      [] t = "unrelated-" -> 10

RECURSIVE StrLen(_)
\* str::len
StrLen(name) == IF name = <<>> THEN 0 ELSE TokenLen(Head(name)) + StrLen(Tail(name))

RECURSIVE SplitAt(_, _, _)
SplitAt(rest, cur, acc) ==
    IF rest = <<>>
    THEN IF cur = <<>> THEN acc ELSE Append(acc, cur)
    ELSE IF Head(rest) = "."
         THEN SplitAt(Tail(rest), <<>>, Append(acc, cur))
         ELSE SplitAt(Tail(rest), Append(cur, Head(rest)), acc)

\* name.split_terminator('.').collect()
split_terminator(name) == SplitAt(name, <<>>, <<>>)

\* <[&str]>::ends_with
ends_with(parts, suffix) ==
    /\ Len(suffix) <= Len(parts)
    /\ SubSeq(parts, Len(parts) - Len(suffix) + 1, Len(parts)) = suffix

\* mutant: the least key is taken for the greatest
max_by_key_least(keyed) ==
    IF keyed = <<>>
    THEN None
    ELSE LET best == CHOOSE i \in DOMAIN keyed :
                        /\ \A j \in DOMAIN keyed : keyed[j].key >= keyed[i].key
                        /\ \A j \in DOMAIN keyed : j > i => keyed[j].key > keyed[i].key
         IN  Some(keyed[best].item)

\* Iterator::max_by_key over the keyed items in listing order: the last of the greatest
max_by_key(keyed) ==
    IF keyed = <<>>
    THEN None
    ELSE LET best == CHOOSE i \in DOMAIN keyed :
                        /\ \A j \in DOMAIN keyed : keyed[j].key <= keyed[i].key
                        /\ \A j \in DOMAIN keyed : j > i => keyed[j].key < keyed[i].key
         IN  Some(keyed[best].item)

\* mutant: with no matching zone, the first zone listed is taken
find_authoritative_zone_fallback(name, zones) ==
    LET parts == split_terminator(name)
        matches(z) == ends_with(parts, split_terminator(zoneName[z]))
        filtered == SelectSeq(zones, matches)
    IN  IF filtered = <<>>
        THEN Some(zones[1])
        ELSE max_by_key([i \in DOMAIN filtered |-> [item |-> filtered[i], key |-> StrLen(zoneName[filtered[i]])]])

\* Dns::find_authoritative_zone(name), list_zones having answered `zones`
find_authoritative_zone(name, zones) ==
    LET parts == split_terminator(name)
        matches(z) == ends_with(parts, split_terminator(zoneName[z]))
        filtered == SelectSeq(zones, matches)
    IN  max_by_key([i \in DOMAIN filtered |-> [item |-> filtered[i], key |-> StrLen(zoneName[filtered[i]])]])

(***************************************************************************)
(* dns/mem/dns_zone.rs and dns/aws/dns_zone.rs: the DnsZone capability.    *)
(***************************************************************************)
\* the names a record may be held for
Fqdns == {InstSubExampleCom, InstExampleOrg, XSubExampleCom, YSubExampleCom, XSub1ExampleCom, XSub3ExampleCom, XUnrelatedSub1ExampleCom, XExampleOrg}

\* bind that returns Ok and inserts nothing
MemBind_forgetful(records, fqdn, target) == records

\* MemDnsZone::bind: records.insert(fqdn, target)
MemBind(records, fqdn, target) == [records EXCEPT ![fqdn] = Some(target)]

\* MemDnsZone::unbind: records.remove(fqdn)
MemUnbind(records, fqdn) == [records EXCEPT ![fqdn] = None]

ResourceRecordSet(name, type_, value) == [name |-> name, type_ |-> type_, value |-> value, ttl |-> 60]

\* mutant: the arms of the match on the target are swapped
desired_record_set_swapped(fqdn, target) ==
    IF target.kind = "A"
    THEN ResourceRecordSet(fqdn, "CNAME", Ipv4Addr_to_string(target.value))
    ELSE ResourceRecordSet(fqdn, "A", target.value)

\* AwsDnsZone::bind: the record set it asks the provider to upsert
desired_record_set(fqdn, target) ==
    IF target.kind = "A"
    THEN ResourceRecordSet(fqdn, "A", Ipv4Addr_to_string(target.value))
    ELSE ResourceRecordSet(fqdn, "CNAME", target.value)

\* the provider refuses a record set of a name that has one of the other type:
\* a CNAME does not share its name
Conflicts(sets, desired) == \E r \in sets : r.name = desired.name /\ r.type_ # desired.type_

\* the provider's answer to an UPSERT that succeeds
Upsert(sets, desired) ==
    {r \in sets : ~(r.name = desired.name /\ r.type_ = desired.type_)} \cup {desired}

\* the provider's answer to a DELETE that succeeds
Delete(sets, existing) == sets \ {existing}

\* the provider's listing order of record sets: by name, the labels compared
\* from the last to the first, then by type
NameRank(name) ==
    CASE name = InstSubExampleCom -> 1
      [] name = XSubExampleCom -> 2
      [] name = YSubExampleCom -> 3
      [] name = XSub1ExampleCom -> 4
      [] name = XSub3ExampleCom -> 5
      [] name = XUnrelatedSub1ExampleCom -> 6
      [] name = InstExampleOrg -> 7
      [] name = XExampleOrg -> 8

TypeRank(type_) == IF type_ = "A" THEN 0 ELSE 1

RecordKey(name, type_) == 2 * NameRank(name) + TypeRank(type_)

\* AwsDnsZone::find_record_set: the first record set listed from (fqdn, type_) on
find_record_set(sets, fqdn, type_) ==
    LET from == {r \in sets : RecordKey(r.name, r.type_) >= RecordKey(fqdn, type_)}
    IN  IF from = {}
        THEN None
        ELSE Some(CHOOSE r \in from : \A q \in from : RecordKey(r.name, r.type_) <= RecordKey(q.name, q.type_))

\* AwsDnsZone::unbind: for type_ in &["A", "CNAME"]
UnbindTypes == <<"A", "CNAME">>

(***************************************************************************)
(* cloud/aws/instance.rs: the instance as the provider describes it, and   *)
(* as get_state reads it.                                                  *)
(***************************************************************************)
Pending == [tag |-> "Pending"]

Running == [tag |-> "Running"]

Terminating == [tag |-> "Terminating"]

Terminated == [tag |-> "Terminated"]

Stopping == [tag |-> "Stopping"]

Stopped == [tag |-> "Stopped"]

Unknown(x) == [tag |-> "Unknown", x |-> x]

\* impl From<u8> for InstanceStateCode
FromU8(code) ==
    CASE code = 0 -> Pending
      [] code = 16 -> Running
      [] code = 32 -> Terminating
      [] code = 48 -> Terminated
      [] code = 64 -> Stopping
      [] code = 80 -> Stopped
      [] OTHER -> Unknown(code)

\* mutant: the code is handed on as the provider gave it
AsU8_untruncated(x) == x

\* get_state: i.state.unwrap().code.unwrap() as u8
AsU8(x) == x % 256

\* the public addresses of the provider, as the strings it reports
IpStrings == {"3.3.3.1", "3.3.3.2"}

\* Ipv4Addr::from_str on the strings the provider reports
Ipv4Addr_from_str(str) ==
    CASE str = "3.3.3.1" -> Ok @@ [addr |-> <<3, 3, 3, 1>>]
      [] str = "3.3.3.2" -> Ok @@ [addr |-> <<3, 3, 3, 2>>]
      [] OTHER -> Err("not an IP address")

\* the provider's description of an instance
Description(code, type, ip, dns) ==
    [code |-> code, instance_type |-> type, public_ip_address |-> ip, public_dns_name |-> dns]

\* get_state on a description: the InstanceState, or the error
get_state(d) ==
    LET ip == IF d.public_ip_address = None THEN Ok ELSE Ipv4Addr_from_str(d.public_ip_address.some)
    IN  IF ip = Err("not an IP address")
        THEN ip
        ELSE Ok @@ [instance_state_code |-> FromU8(AsU8(d.code)),
                    instance_type |-> d.instance_type,
                    public_ipv4_addr |-> IF d.public_ip_address = None THEN None ELSE Some(ip.addr),
                    public_dns_name |-> d.public_dns_name]

\* mutant: the IPv4 address is preferred to the DNS name
running_addr_prefersIp(st) ==
    IF st.public_ipv4_addr # None
    THEN Ok @@ [addr |-> A(st.public_ipv4_addr.some)]
    ELSE IF st.public_dns_name # None
         THEN Ok @@ [addr |-> Cname(st.public_dns_name.some)]
         ELSE Err("expected running instance to have IPv4 address")

\* mutant: a running instance without address is given the unspecified address
running_addr_unspecified(st) ==
    IF st.public_dns_name # None
    THEN Ok @@ [addr |-> Cname(st.public_dns_name.some)]
    ELSE IF st.public_ipv4_addr # None
         THEN Ok @@ [addr |-> A(st.public_ipv4_addr.some)]
         ELSE Ok @@ [addr |-> A(<<0, 0, 0, 0>>)]

\* ensure_running, InstanceStateCode::Running: the address, or the error
running_addr(st) ==
    IF st.public_dns_name # None
    THEN Ok @@ [addr |-> Cname(st.public_dns_name.some)]
    ELSE IF st.public_ipv4_addr # None
         THEN Ok @@ [addr |-> A(st.public_ipv4_addr.some)]
         ELSE Err("expected running instance to have IPv4 address")

InstanceRunningState(type, addr) == [instance_type |-> type, addr |-> addr]

\* mutant: the type is changed in whatever power state the instance is
aws_type_decision_anyState(st, instance_type) ==
    IF st.instance_type = instance_type THEN "same" ELSE "change"

\* mutant: the type is changed unless the instance is read as Running
aws_type_decision_unlessRunning(st, instance_type) ==
    IF st.instance_type = instance_type
    THEN "same"
    ELSE IF st.instance_state_code # Running THEN "change" ELSE "reject"

\* mutant: the type is not compared, only the power state is looked at
aws_type_decision_uncompared(st, instance_type) ==
    IF st.instance_state_code = Stopped THEN "change" ELSE "reject"

\* try_ensure_instance_type: "same" (Ok without a request), "change" or "reject"
aws_type_decision(st, instance_type) ==
    IF st.instance_type = instance_type
    THEN "same"
    ELSE IF st.instance_state_code = Stopped THEN "change" ELSE "reject"

\* mutant: the type is changed whether the instance runs or not
mem_type_decision_anyState(st, instance_type) ==
    IF st.instance_type = instance_type THEN "same" ELSE "change"

\* MemInstance::try_ensure_instance_type
mem_type_decision(st, instance_type) ==
    IF st.instance_type = instance_type
    THEN "same"
    ELSE IF ~st.is_running THEN "change" ELSE "reject"

\* mutant: a terminated instance is started or stopped like a live one
power_arm_terminatedAsLive(code, wanted) ==
    CASE code \in {Pending, Stopping} -> "wait"
      [] code = wanted -> "return"
      [] code \in {Running, Stopped, Terminated} -> "request"
      [] OTHER -> "bail"

\* mutant: the loop gives up waiting and returns
power_arm_givesUp(code, wanted) ==
    CASE code \in {Pending, Stopping} -> "return"
      [] code = wanted -> "return"
      [] code \in {Running, Stopped} -> "request"
      [] OTHER -> "bail"

\* mutant: an instance on its way up or down is not waited for
power_arm_impatient(code, wanted) ==
    CASE code = wanted -> "return"
      [] code \in {Pending, Stopping, Running, Stopped} -> "request"
      [] OTHER -> "bail"

\* mutant: an instance that is not as wanted is waited on and never asked to change
power_arm_passive(code, wanted) ==
    CASE code \in {Pending, Stopping} -> "wait"
      [] code = wanted -> "return"
      [] code \in {Running, Stopped} -> "wait"
      [] OTHER -> "bail"

\* mutant: an instance that is on its way down is asked to start at once
power_arm_eager(code, wanted) ==
    CASE code = Pending -> "wait"
      [] code = Stopping -> IF wanted = Running THEN "request" ELSE "wait"
      [] code = wanted -> "return"
      [] code \in {Running, Stopped} -> "request"
      [] OTHER -> "bail"

\* ensure_running (wanted = Running) and ensure_stopped (wanted = Stopped):
\* the arm of the match on state.instance_state_code
power_arm(code, wanted) ==
    CASE code \in {Pending, Stopping} -> "wait"
      [] code = wanted -> "return"
      [] code \in {Running, Stopped} -> "request"
      [] OTHER -> "bail"

\* the message of the arms that bail
bail_message(code) ==
    CASE code = Terminating -> "instance is terminating"
      [] code = Terminated -> "instance is terminated"
      [] OTHER -> "instance is in unknown state: " \o ToString(code.x)

MustBeStopped == "instance must be stopped to change its type"

(***************************************************************************)
(* The provider's side of an instance.                                     *)
(***************************************************************************)
PublicIp(i) == IF i = 1 THEN "3.3.3.1" ELSE "3.3.3.2"

PublicDns(i) == IF i = 1 THEN "ec2-3-3-3-1.compute.amazonaws.com" ELSE "ec2-3-3-3-2.compute.amazonaws.com"

\* the description of instance i in a state with code `code`
Described(i, code, type) ==
    IF AsU8(code) = 16
    THEN Description(code, type,
                     IF "ip" \in addressing[i] THEN Some(PublicIp(i)) ELSE None,
                     IF "dns" \in addressing[i] THEN Some(PublicDns(i)) ELSE None)
    ELSE Description(code, type, None, None)

(***************************************************************************)
(* cli/dispatch.rs.                                                        *)
(***************************************************************************)
\* mutant: one loop over both lists, the n-th network with the n-th protocol
DesiredRules_paired(ip_cidrs, ip_protocols) ==
    {IpIngressRule(ip_cidrs[i], ip_protocols[i]) : i \in DOMAIN ip_cidrs \cap DOMAIN ip_protocols}

\* mutant: an Open that names no protocol stands for every protocol, one that
\* names no network for every network
DesiredRules_emptyIsAny(ip_cidrs, ip_protocols) ==
    LET cs == IF ip_cidrs = <<>> THEN Cidrs ELSE {ip_cidrs[i] : i \in DOMAIN ip_cidrs}
        ps == IF ip_protocols = <<>> THEN Protocols ELSE {ip_protocols[j] : j \in DOMAIN ip_protocols}
    IN  {IpIngressRule(c, q) : c \in cs, q \in ps}

\* Command::Open: the nested loops that insert IpIngressRule(*ip_cidr, *ip_protocol)
DesiredRules(ip_cidrs, ip_protocols) ==
    {IpIngressRule(ip_cidrs[i], ip_protocols[j]) : i \in DOMAIN ip_cidrs, j \in DOMAIN ip_protocols}

\* mutant: every desired rule is added again
MissingRules_all(desired, existing) == desired

\* sync_firewall_rules: desired_rules - &existing_rules
MissingRules(desired, existing) == desired \ existing

\* mutant: the extra rules are taken from what the firewall holds when the
\* removal is made, not from what was read
ExtraRules_reread(existing, desired) == ActualRules(Head(todo)) \ desired

\* mutant: no existing rule is taken for extra
ExtraRules_none(existing, desired) == {}

\* mutant: the operands of the difference are swapped
ExtraRules_swapped(existing, desired) == desired \ existing

\* mutant: every existing rule is removed
ExtraRules_all(existing, desired) == existing

\* sync_firewall_rules: &existing_rules - desired_rules
ExtraRules(existing, desired) == existing \ desired

\* mutant: a name gives one firewall, as if names were keys
list_firewalls_one(names) ==
    LET matching == {f \in FwIds : fwName[f] \in names}
    IN  IF matching = {} THEN {<<>>} ELSE {<<f>> : f \in matching}

\* mutant: the names are not looked at
list_firewalls_all(names) == Orders(FwIds)

\* Cloud::list_firewalls(names): the firewalls whose name is one of names, in any order
list_firewalls(names) == Orders({f \in FwIds : fwName[f] \in names})

Call(op, res, arg, ret) == [op |-> op, res |-> res, arg |-> arg, ret |-> ret]

OpenCommands ==
    {[kind |-> "open", ip_cidrs |-> cs, ip_protocols |-> ps, names |-> ns] :
        cs \in CidrLists, ps \in SeqsUpTo(Protocols, MaxList), ns \in NameSets}

CloseCommands == {[kind |-> "close", names |-> ns] : ns \in NameSets}

StartCommands ==
    {[kind |-> "start", instance_type |-> t, names |-> ns] :
        t \in {None} \cup {Some(x) : x \in InstanceTypes}, ns \in NameSets}

StopCommands == {[kind |-> "stop", names |-> ns] : ns \in NameSets}

\* the commands an operator issues next: anything first, then the same again or
\* the Close or Stop of the same names
NextCommands(kind) ==
    IF runs = 0
    THEN {c \in OpenCommands \cup CloseCommands \cup StartCommands \cup StopCommands : c.kind = kind}
    ELSE {c \in {cmd, [kind |-> "close", names |-> cmd.names], [kind |-> "stop", names |-> cmd.names]} :
             c.kind = kind}

\* what a dispatch leaves behind for the history of the next one
EndOfRun ==
    [cmd |-> cmd, result |-> result, memRules |-> memRules, sgPerms |-> sgPerms,
     memInst |-> memInst, awsInst |-> awsInst, memRecords |-> memRecords, awsRecordSets |-> awsRecordSets]

\* dispatch entered with command c, list_firewalls answered fws
BeginFirewalls(c, desired, fws) ==
    /\ pc \in {"idle", "done"}
    /\ runs < MaxRuns
    /\ cmd' = c
    /\ runs' = runs + 1
    /\ prev' = EndOfRun
    /\ desired_rules' = desired
    /\ existing_rules' = {}
    /\ snapshot' = [f \in FwIds |-> None]
    /\ synced' = {}
    /\ \/ /\ todo' = fws
          /\ calls' = <<Call("list_firewalls", 0, c.names, "ok")>>
          /\ IF fws = <<>>
             THEN pc' = "done" /\ result' = Some(Ok)
             ELSE pc' = "fw_list" /\ result' = None
       \/ /\ backend = "aws"
          /\ todo' = <<>>
          /\ calls' = <<Call("list_firewalls", 0, c.names, "err")>>
          /\ pc' = "done"
          /\ result' = Some(Err("failed to describe security groups"))
    /\ UNCHANGED <<notFw, cloudVars, fwVars>>

\* dispatch, Command::Open: build desired_rules, list the firewalls
DispatchOpen ==
    \E c \in NextCommands("open") : \E fws \in list_firewalls(c.names) :
        BeginFirewalls(c, DesiredRules(c.ip_cidrs, c.ip_protocols), fws)

\* dispatch, Command::Close: the empty desired_rules, list the firewalls
DispatchClose ==
    \E c \in NextCommands("close") : \E fws \in list_firewalls(c.names) :
        BeginFirewalls(c, {}, fws)

\* mutant: best effort, the failure of one firewall is kept for the end and the
\* loop goes on to the next
Abort_bestEffort(msg, entries) ==
    /\ calls' = calls \o entries
    /\ todo' = Tail(todo)
    /\ IF Tail(todo) = <<>>
       THEN pc' = "done" /\ result' = Some(Err(msg))
       ELSE pc' = "fw_list" /\ result' = None
    /\ UNCHANGED <<notFw, cloudVars, fwVars, cmd, desired_rules, existing_rules, snapshot, synced, runs, prev>>

\* a capability call returned Err: `?` returns it from dispatch
Abort(msg, entries) ==
    /\ pc' = "done"
    /\ result' = Some(Err(msg))
    /\ calls' = calls \o entries
    /\ UNCHANGED <<notFw, cloudVars, fwVars, cmd, todo, desired_rules, existing_rules, snapshot, synced, runs, prev>>

\* sync_firewall_rules: let existing_rules = fw.list_ingress_rules()?
FwList ==
    /\ pc = "fw_list"
    /\ LET f == Head(todo)
           r == list_ingress_rules(f)
       IN  \/ /\ r # Err("unknown protocol")
              /\ existing_rules' = r.rules
              /\ snapshot' = [snapshot EXCEPT ![f] = Some(IF backend = "mem" THEN memRules[f] ELSE sgPerms[f])]
              /\ calls' = Append(calls, Call("list_ingress_rules", f, {}, "ok"))
              /\ pc' = "fw_add"
              /\ UNCHANGED <<notFw, cloudVars, fwVars, cmd, todo, desired_rules, result, synced, runs, prev>>
           \/ /\ r = Err("unknown protocol")
              /\ Abort("unknown protocol", <<Call("list_ingress_rules", f, {}, "err")>>)
           \/ /\ backend = "aws"
              /\ Abort("failed to describe security group", <<Call("list_ingress_rules", f, {}, "err")>>)

\* sync_firewall_rules: fw.add_ingress_rules(&missing_rules)?
FwAdd ==
    /\ pc = "fw_add"
    /\ LET f == Head(todo)
           missing_rules == MissingRules(desired_rules, existing_rules)
           request == ip_permissions(missing_rules)
       IN  \/ /\ backend = "mem"
              /\ memRules' = [memRules EXCEPT ![f] = MemAdd(@, missing_rules)]
              /\ calls' = Append(calls, Call("add_ingress_rules", f, missing_rules, "ok"))
              /\ pc' = "fw_remove"
              /\ UNCHANGED <<notFw, cloudVars, sgPerms, cmd, todo, desired_rules, existing_rules, result, snapshot, synced, runs, prev>>
           \/ /\ backend = "aws" /\ IsEmptyRequest(request)
              /\ calls' = Append(calls, Call("add_ingress_rules", f, missing_rules, "ok"))
              /\ pc' = "fw_remove"
              /\ UNCHANGED <<notFw, cloudVars, fwVars, cmd, todo, desired_rules, existing_rules, result, snapshot, synced, runs, prev>>
           \/ /\ backend = "aws" /\ ~IsEmptyRequest(request)
              /\ sgPerms' = [sgPerms EXCEPT ![f] = Authorize(@, request)]
              /\ calls' = calls \o <<Call("authorize_security_group_ingress", f, request, "ok"),
                                     Call("add_ingress_rules", f, missing_rules, "ok")>>
              /\ pc' = "fw_remove"
              /\ UNCHANGED <<notFw, cloudVars, memRules, cmd, todo, desired_rules, existing_rules, result, snapshot, synced, runs, prev>>
           \/ /\ backend = "aws" /\ ~IsEmptyRequest(request)
              /\ Abort("failed to authorize ingress for security group",
                       <<Call("authorize_security_group_ingress", f, request, "err"),
                         Call("add_ingress_rules", f, missing_rules, "err")>>)

\* the for loop of dispatch after sync_firewall_rules returned Ok(())
FwDone(f) ==
    /\ synced' = synced \cup {f}
    /\ todo' = Tail(todo)
    /\ IF Tail(todo) = <<>>
       THEN pc' = "done" /\ result' = Some(Ok)
       ELSE pc' = "fw_list" /\ result' = None

\* sync_firewall_rules: fw.remove_ingress_rules(&extra_rules)?; Ok(())
FwRemove ==
    /\ pc = "fw_remove"
    /\ LET f == Head(todo)
           extra_rules == ExtraRules(existing_rules, desired_rules)
           request == ip_permissions(extra_rules)
       IN  \/ /\ backend = "mem"
              /\ memRules' = [memRules EXCEPT ![f] = MemRemove(@, extra_rules)]
              /\ calls' = Append(calls, Call("remove_ingress_rules", f, extra_rules, "ok"))
              /\ FwDone(f)
              /\ UNCHANGED <<notFw, cloudVars, sgPerms, cmd, desired_rules, existing_rules, snapshot, runs, prev>>
           \/ /\ backend = "aws" /\ IsEmptyRequest(request)
              /\ calls' = Append(calls, Call("remove_ingress_rules", f, extra_rules, "ok"))
              /\ FwDone(f)
              /\ UNCHANGED <<notFw, cloudVars, fwVars, cmd, desired_rules, existing_rules, snapshot, runs, prev>>
           \/ /\ backend = "aws" /\ ~IsEmptyRequest(request)
              /\ sgPerms' = [sgPerms EXCEPT ![f] = Revoke(@, request)]
              /\ calls' = calls \o <<Call("revoke_security_group_ingress", f, request, "ok"),
                                     Call("remove_ingress_rules", f, extra_rules, "ok")>>
              /\ FwDone(f)
              /\ UNCHANGED <<notFw, cloudVars, memRules, cmd, desired_rules, existing_rules, snapshot, runs, prev>>
           \/ /\ backend = "aws" /\ ~IsEmptyRequest(request)
              /\ Abort("failed to revoke ingress for security group",
                       <<Call("revoke_security_group_ingress", f, request, "err"),
                         Call("remove_ingress_rules", f, extra_rules, "err")>>)

\* the rules another holder of the firewall adds and removes
OtherRules == {IpIngressRule("1.1.0.0/16", Udp(IpPortRange(22, 22)))}

\* another holder of the firewall adds rule r: add_ingress_rules of the double,
\* an authorize request at the provider
ExternalAdd(f, r) ==
    /\ external
    /\ IF backend = "mem"
       THEN /\ r \notin memRules[f]
            /\ memRules' = [memRules EXCEPT ![f] = MemAdd(@, {r})]
            /\ UNCHANGED sgPerms
       ELSE /\ to_ip_permission(r) \notin sgPerms[f]
            /\ sgPerms' = [sgPerms EXCEPT ![f] = Authorize(@, ip_permissions({r}))]
            /\ UNCHANGED memRules
    /\ UNCHANGED <<notFw, cloudVars, fwLocals, dispVars>>

\* another holder of the firewall removes rule r: remove_ingress_rules of the
\* double, a revoke request at the provider
ExternalRemove(f, r) ==
    /\ external
    /\ IF backend = "mem"
       THEN /\ r \in memRules[f]
            /\ memRules' = [memRules EXCEPT ![f] = MemRemove(@, {r})]
            /\ UNCHANGED sgPerms
       ELSE /\ to_ip_permission(r) \in sgPerms[f]
            /\ sgPerms' = [sgPerms EXCEPT ![f] = Revoke(@, ip_permissions({r}))]
            /\ UNCHANGED memRules
    /\ UNCHANGED <<notFw, cloudVars, fwLocals, dispVars>>

(***************************************************************************)
(* cli/dispatch.rs: Start and Stop.                                        *)
(***************************************************************************)
\* Cloud::list_instances(names): the instances whose name is one of names, in any order
list_instances(names) == Orders({i \in InstIds : instName[i] \in names})

\* mutant: Stop goes straight to ensure_stopped
FirstStep_noUnbind(c, i) ==
    IF c.kind = "start"
    THEN IF c.instance_type # None THEN "type_read" ELSE "run_read"
    ELSE "stop_read"

\* the first capability call dispatch makes for instance i
FirstStep(c, i) ==
    IF c.kind = "start"
    THEN IF c.instance_type # None THEN "type_read" ELSE "run_read"
    ELSE IF instFqdn[i] # None THEN "dns_find" ELSE "stop_read"

\* mutant: as in the first design, where Stop took the rules off every firewall
BeginInstances_closing(c, insts) ==
    /\ pc \in {"idle", "done"}
    /\ runs < MaxRuns
    /\ cmd' = c
    /\ runs' = runs + 1
    /\ prev' = EndOfRun
    /\ state' = None
    /\ observed' = None
    /\ running_state' = None
    /\ dns_zone' = None
    /\ type_ix' = 1
    /\ todo' = insts
    /\ calls' = <<Call("list_instances", 0, c.names, "ok")>>
    /\ IF insts = <<>>
       THEN pc' = "done" /\ result' = Some(Ok)
       ELSE pc' = FirstStep(c, Head(insts)) /\ result' = None
    /\ IF c.kind = "stop"
       THEN /\ memRules' = [f \in FwIds |-> {}]
            /\ sgPerms' = [f \in FwIds |-> {}]
       ELSE UNCHANGED fwVars
    /\ UNCHANGED <<fwLocals, cloudVars, instVars, dnsVars>>

\* dispatch entered with command c, list_instances answered insts
BeginInstances(c, insts) ==
    /\ pc \in {"idle", "done"}
    /\ runs < MaxRuns
    /\ cmd' = c
    /\ runs' = runs + 1
    /\ prev' = EndOfRun
    /\ state' = None
    /\ observed' = None
    /\ running_state' = None
    /\ dns_zone' = None
    /\ type_ix' = 1
    /\ \/ /\ todo' = insts
          /\ calls' = <<Call("list_instances", 0, c.names, "ok")>>
          /\ IF insts = <<>>
             THEN pc' = "done" /\ result' = Some(Ok)
             ELSE pc' = FirstStep(c, Head(insts)) /\ result' = None
       \/ /\ backend = "aws"
          /\ todo' = <<>>
          /\ calls' = <<Call("list_instances", 0, c.names, "err")>>
          /\ pc' = "done"
          /\ result' = Some(Err("failed to describe instances"))
    /\ UNCHANGED <<notInst, cloudVars, instVars, dnsVars>>

\* dispatch, Command::Start: list the instances
DispatchStart ==
    \E c \in NextCommands("start") : \E insts \in list_instances(c.names) : BeginInstances(c, insts)

\* dispatch, Command::Stop: list the instances
DispatchStop ==
    \E c \in NextCommands("stop") : \E insts \in list_instances(c.names) : BeginInstances(c, insts)

\* a step of dispatch on the current instance that leaves the clouds as they are
Local(next_pc, entries, st, obs) ==
    /\ pc' = next_pc
    /\ calls' = calls \o entries
    /\ state' = st
    /\ observed' = obs
    /\ UNCHANGED <<notInst, cloudVars, instVars, dnsVars, cmd, todo, result, running_state, dns_zone, type_ix, runs, prev>>

\* a capability call on an instance returned Err: `?` returns it from dispatch
InstAbort(msg, entries, st, obs) ==
    /\ pc' = "done"
    /\ result' = Some(Err(msg))
    /\ calls' = calls \o entries
    /\ state' = st
    /\ observed' = obs
    /\ UNCHANGED <<notInst, cloudVars, instVars, dnsVars, cmd, todo, running_state, dns_zone, type_ix, runs, prev>>

\* the for loop of dispatch once instance i is done with
NextInstance ==
    /\ todo' = Tail(todo)
    /\ IF Tail(todo) = <<>>
       THEN pc' = "done" /\ result' = Some(Ok)
       ELSE pc' = FirstStep(cmd, Head(Tail(todo))) /\ result' = None

\* dispatch (Command::Start): instance.try_ensure_instance_type(instance_type)?
\* -- MemInstance's whole method; AwsInstance's up to the request
TypeEnsure ==
    /\ pc = "type_read"
    /\ LET i == Head(todo)
           t == cmd.instance_type.some
           m == mem_type_decision(memInst[i], t)
           r == get_state(awsInst[i])
           a == aws_type_decision(r, t)
       IN  \/ /\ backend = "mem" /\ m = "same"
              /\ Local("run_read", <<Call("try_ensure_instance_type", i, t, "ok")>>, state, observed)
           \/ /\ backend = "mem" /\ m = "change"
              /\ memInst' = [memInst EXCEPT ![i].instance_type = t]
              /\ pc' = "run_read"
              /\ calls' = Append(calls, Call("try_ensure_instance_type", i, t, "ok"))
              /\ UNCHANGED <<notInst, cloudVars, awsInst, dnsVars, instLocals, cmd, todo, result, runs, prev>>
           \/ /\ backend = "mem" /\ m = "reject"
              /\ InstAbort(MustBeStopped, <<Call("try_ensure_instance_type", i, t, "err")>>, state, observed)
           \/ /\ backend = "aws" /\ a = "same"
              /\ Local("run_read", <<Call("try_ensure_instance_type", i, t, "ok")>>, r, awsInst[i])
           \/ /\ backend = "aws" /\ a = "change"
              /\ Local("type_change", <<>>, r, awsInst[i])
           \/ /\ backend = "aws" /\ a = "reject"
              /\ InstAbort(MustBeStopped, <<Call("try_ensure_instance_type", i, t, "err")>>, r, awsInst[i])
           \/ /\ backend = "aws"
              /\ InstAbort("failed to describe instance",
                           <<Call("try_ensure_instance_type", i, t, "err")>>, state, observed)

\* AwsInstance::try_ensure_instance_type: self.change_instance_type(instance_type)?; Ok(())
TypeChange ==
    /\ pc = "type_change"
    /\ LET i == Head(todo)
           t == cmd.instance_type.some
       IN  \/ /\ AsU8(awsInst[i].code) = 80
              /\ awsInst' = [awsInst EXCEPT ![i].instance_type = t]
              /\ pc' = "run_read"
              /\ calls' = calls \o <<Call("modify_instance_attribute", i, t, "ok"),
                                     Call("try_ensure_instance_type", i, t, "ok")>>
              /\ UNCHANGED <<notInst, cloudVars, memInst, dnsVars, instLocals, cmd, todo, result, runs, prev>>
           \/ /\ AsU8(awsInst[i].code) # 80
              /\ InstAbort("failed to change instance type",
                           <<Call("modify_instance_attribute", i, t, "refused"),
                             Call("try_ensure_instance_type", i, t, "err")>>, state, observed)
           \/ InstAbort("failed to change instance type",
                        <<Call("modify_instance_attribute", i, t, "err"),
                          Call("try_ensure_instance_type", i, t, "err")>>, state, observed)

\* mutant: sync_dns is entered whether or not the instance declares an Fqdn
Returned_alwaysSync(i, running, entries, st, obs) ==
    /\ running_state' = Some(running)
    /\ calls' = calls \o entries
    /\ state' = st
    /\ observed' = obs
    /\ pc' = "dns_find"
    /\ UNCHANGED <<todo, result>>
    /\ UNCHANGED <<notInst, cloudVars, awsInst, dnsVars, cmd, dns_zone, type_ix, runs, prev>>

\* ensure_running returned Ok(running): on to sync_dns, or to the next instance
Returned(i, running, entries, st, obs) ==
    /\ running_state' = Some(running)
    /\ calls' = calls \o entries
    /\ state' = st
    /\ observed' = obs
    /\ IF instFqdn[i] # None
       THEN pc' = "dns_find" /\ UNCHANGED <<todo, result>>
       ELSE NextInstance
    /\ UNCHANGED <<notInst, cloudVars, awsInst, dnsVars, cmd, dns_zone, type_ix, runs, prev>>

\* dispatch (Command::Start): instance.ensure_running()?
\* -- MemInstance's whole method; one iteration of AwsInstance's loop up to the request
RunRead ==
    /\ pc = "run_read"
    /\ LET i == Head(todo)
           r == get_state(awsInst[i])
           code == r.instance_state_code
           addr == running_addr(r)
           arm == power_arm(code, Running)
           mem_running == InstanceRunningState(memInst[i].instance_type, A(memInst[i].ip_addr))
       IN  \/ /\ backend = "mem"
              /\ memInst' = [memInst EXCEPT ![i].is_running = TRUE]
              /\ Returned(i, mem_running, <<Call("ensure_running", i, mem_running, "ok")>>, state, observed)
           \/ /\ backend = "aws" /\ arm = "wait"
              /\ Local("run_read", <<>>, r, awsInst[i])
           \/ /\ backend = "aws" /\ arm = "return" /\ addr # Err("expected running instance to have IPv4 address")
              /\ UNCHANGED memInst
              /\ Returned(i, InstanceRunningState(r.instance_type, addr.addr),
                          <<Call("ensure_running", i, InstanceRunningState(r.instance_type, addr.addr), "ok")>>,
                          r, awsInst[i])
           \/ /\ backend = "aws" /\ arm = "return" /\ addr = Err("expected running instance to have IPv4 address")
              /\ InstAbort(addr.err, <<Call("ensure_running", i, {}, "err")>>, r, awsInst[i])
           \/ /\ backend = "aws" /\ arm = "request"
              /\ Local("run_start", <<>>, r, awsInst[i])
           \/ /\ backend = "aws" /\ arm = "bail"
              /\ InstAbort(bail_message(code), <<Call("ensure_running", i, {}, "err")>>, r, awsInst[i])
           \/ /\ backend = "aws"
              /\ InstAbort("failed to describe instance", <<Call("ensure_running", i, {}, "err")>>, state, observed)

\* ensure_running, InstanceStateCode::Stopped => self.request_start()?, then the sleep
RunStart ==
    /\ pc = "run_start"
    /\ LET i == Head(todo)
       IN  \/ /\ AsU8(awsInst[i].code) = 80
              /\ awsInst' = [awsInst EXCEPT ![i] = Described(i, 0, @.instance_type)]
              /\ pc' = "run_read"
              /\ calls' = Append(calls, Call("start_instances", i, {}, "ok"))
              /\ UNCHANGED <<notInst, cloudVars, memInst, dnsVars, instLocals, cmd, todo, result, runs, prev>>
           \/ InstAbort("failed to start instance",
                        <<Call("start_instances", i, {}, "err"), Call("ensure_running", i, {}, "err")>>,
                        state, observed)

\* dispatch (Command::Stop): instance.ensure_stopped()?
\* -- MemInstance's whole method; one iteration of AwsInstance's loop up to the request
StopRead ==
    /\ pc = "stop_read"
    /\ LET i == Head(todo)
           r == get_state(awsInst[i])
           code == r.instance_state_code
           arm == power_arm(code, Stopped)
       IN  \/ /\ backend = "mem"
              /\ memInst' = [memInst EXCEPT ![i].is_running = FALSE]
              /\ calls' = Append(calls, Call("ensure_stopped", i, {}, "ok"))
              /\ NextInstance
              /\ UNCHANGED <<notInst, cloudVars, awsInst, dnsVars, instLocals, cmd, runs, prev>>
           \/ /\ backend = "aws" /\ arm = "wait"
              /\ Local("stop_read", <<>>, r, awsInst[i])
           \/ /\ backend = "aws" /\ arm = "request"
              /\ Local("stop_stop", <<>>, r, awsInst[i])
           \/ /\ backend = "aws" /\ arm = "return"
              /\ calls' = Append(calls, Call("ensure_stopped", i, {}, "ok"))
              /\ state' = r
              /\ observed' = awsInst[i]
              /\ NextInstance
              /\ UNCHANGED <<notInst, cloudVars, instVars, dnsVars, cmd, running_state, dns_zone, type_ix, runs, prev>>
           \/ /\ backend = "aws" /\ arm = "bail"
              /\ InstAbort(bail_message(code), <<Call("ensure_stopped", i, {}, "err")>>, r, awsInst[i])
           \/ /\ backend = "aws"
              /\ InstAbort("failed to describe instance", <<Call("ensure_stopped", i, {}, "err")>>, state, observed)

\* ensure_stopped, InstanceStateCode::Running => self.request_stop()?, then the sleep
StopStop ==
    /\ pc = "stop_stop"
    /\ LET i == Head(todo)
       IN  \/ /\ AsU8(awsInst[i].code) = 16
              /\ awsInst' = [awsInst EXCEPT ![i] = Described(i, 64, @.instance_type)]
              /\ pc' = "stop_read"
              /\ calls' = Append(calls, Call("stop_instances", i, {}, "ok"))
              /\ UNCHANGED <<notInst, cloudVars, memInst, dnsVars, instLocals, cmd, todo, result, runs, prev>>
           \/ InstAbort("failed to stop instance",
                        <<Call("stop_instances", i, {}, "err"), Call("ensure_stopped", i, {}, "err")>>,
                        state, observed)

\* the provider brings a pending instance up and gives it its public addresses
ProviderBoot(i) ==
    /\ backend = "aws"
    /\ AsU8(awsInst[i].code) = 0
    /\ awsInst' = [awsInst EXCEPT ![i] = Described(i, 16, @.instance_type)]
    /\ UNCHANGED <<notInst, cloudVars, memInst, dnsVars, instLocals, dispVars>>

\* the provider brings a stopping instance down
ProviderHalt(i) ==
    /\ backend = "aws"
    /\ AsU8(awsInst[i].code) = 64
    /\ awsInst' = [awsInst EXCEPT ![i] = Described(i, 80, @.instance_type)]
    /\ UNCHANGED <<notInst, cloudVars, memInst, dnsVars, instLocals, dispVars>>

\* another client of the provider requests the start of a stopped instance
ExternalStart(i) ==
    /\ external
    /\ IF backend = "mem"
       THEN /\ ~memInst[i].is_running
            /\ memInst' = [memInst EXCEPT ![i].is_running = TRUE]
            /\ UNCHANGED awsInst
       ELSE /\ AsU8(awsInst[i].code) = 80
            /\ awsInst' = [awsInst EXCEPT ![i] = Described(i, 0, @.instance_type)]
            /\ UNCHANGED memInst
    /\ UNCHANGED <<notInst, cloudVars, dnsVars, instLocals, dispVars>>

\* Dns::list_zones: the zones there are, in any order; a zone that has not been
\* created has the empty name
list_zones == Orders({z \in ZoneIds : zoneName[z] # <<>>})

\* someone creates the zone sub.example.com, without records
CreateDnsZone(z) ==
    /\ external
    /\ zoneName[z] = <<>>
    /\ \A y \in ZoneIds : zoneName[y] # SubExampleCom
    /\ zoneName' = [zoneName EXCEPT ![z] = SubExampleCom]
    /\ UNCHANGED <<backend, fwName, instName, instFqdn, addressing, external, textVars>>
    /\ UNCHANGED <<fwVars, instVars, dnsVars, fwLocals, instLocals, dispVars>>

\* mutant: a Stop that finds no zone for the name goes on to stop the instance
DnsFind_lenient ==
    /\ pc = "dns_find"
    /\ LET i == Head(todo)
           fqdn == instFqdn[i].some
       IN  \E zones \in list_zones :
              LET z == find_authoritative_zone(fqdn, zones)
              IN  \/ /\ z # None
                     /\ dns_zone' = z
                     /\ type_ix' = 1
                     /\ pc' = IF cmd.kind = "start" THEN "dns_bind" ELSE "dns_unbind"
                     /\ calls' = Append(calls, Call("find_authoritative_zone", i, z.some, "ok"))
                     /\ UNCHANGED <<notInst, cloudVars, instVars, dnsVars, state, observed, running_state,
                                    cmd, todo, result, runs, prev>>
                  \/ /\ z = None /\ cmd.kind = "start"
                     /\ InstAbort("could not find authoritative DNS zone",
                                  <<Call("find_authoritative_zone", i, {}, "err")>>, state, observed)
                  \/ /\ z = None /\ cmd.kind = "stop"
                     /\ Local("stop_read", <<Call("find_authoritative_zone", i, {}, "err")>>, state, observed)
                  \/ /\ backend = "aws"
                     /\ InstAbort("failed to list hosted zones",
                                  <<Call("find_authoritative_zone", i, {}, "err")>>, state, observed)

\* sync_dns: let dns_zone = dns.find_authoritative_zone(fqdn)?
DnsFind ==
    /\ pc = "dns_find"
    /\ LET i == Head(todo)
           fqdn == instFqdn[i].some
       IN  \E zones \in list_zones :
              LET z == find_authoritative_zone(fqdn, zones)
              IN  \/ /\ z # None
                     /\ dns_zone' = z
                     /\ type_ix' = 1
                     /\ pc' = IF cmd.kind = "start" THEN "dns_bind" ELSE "dns_unbind"
                     /\ calls' = Append(calls, Call("find_authoritative_zone", i, z.some, "ok"))
                     /\ UNCHANGED <<notInst, cloudVars, instVars, dnsVars, state, observed, running_state,
                                    cmd, todo, result, runs, prev>>
                  \/ /\ z = None
                     /\ InstAbort("could not find authoritative DNS zone",
                                  <<Call("find_authoritative_zone", i, {}, "err")>>, state, observed)
                  \/ /\ backend = "aws"
                     /\ InstAbort("failed to list hosted zones",
                                  <<Call("find_authoritative_zone", i, {}, "err")>>, state, observed)

\* sync_dns: dns_zone.bind(fqdn, target)?; Ok(())
DnsBind ==
    /\ pc = "dns_bind"
    /\ LET i == Head(todo)
           fqdn == instFqdn[i].some
           z == dns_zone.some
           target == running_state.some.addr
           desired == desired_record_set(fqdn, target)
       IN  \/ /\ backend = "mem"
              /\ memRecords' = [memRecords EXCEPT ![z] = MemBind(@, fqdn, target)]
              /\ calls' = Append(calls, Call("bind", z, <<fqdn, target>>, "ok"))
              /\ NextInstance
              /\ UNCHANGED <<notInst, cloudVars, instVars, awsRecordSets, instLocals, cmd, runs, prev>>
           \/ /\ backend = "aws" /\ Conflicts(awsRecordSets[z], desired)
              /\ InstAbort("failed to UPSERT DNS entry",
                           <<Call("UPSERT", z, desired, "conflict"), Call("bind", z, <<fqdn, target>>, "err")>>,
                           state, observed)
           \/ /\ backend = "aws" /\ ~Conflicts(awsRecordSets[z], desired)
              /\ awsRecordSets' = [awsRecordSets EXCEPT ![z] = Upsert(@, desired)]
              /\ calls' = calls \o <<Call("UPSERT", z, desired, "ok"), Call("bind", z, <<fqdn, target>>, "ok")>>
              /\ NextInstance
              /\ UNCHANGED <<notInst, cloudVars, instVars, memRecords, instLocals, cmd, runs, prev>>
           \/ /\ backend = "aws"
              /\ InstAbort("failed to UPSERT DNS entry",
                           <<Call("UPSERT", z, desired, "err"), Call("bind", z, <<fqdn, target>>, "err")>>,
                           state, observed)

\* mutant: the unbind removes what is held for the name in every zone
DnsUnbind_everyZone ==
    /\ pc = "dns_unbind"
    /\ LET fqdn == instFqdn[Head(todo)].some
       IN  /\ memRecords' = IF backend = "mem"
                            THEN [y \in ZoneIds |-> MemUnbind(memRecords[y], fqdn)]
                            ELSE memRecords
           /\ awsRecordSets' = IF backend = "aws"
                               THEN [y \in ZoneIds |-> {r \in awsRecordSets[y] : r.name # fqdn}]
                               ELSE awsRecordSets
           /\ calls' = Append(calls, Call("unbind", dns_zone.some, fqdn, "ok"))
           /\ pc' = "stop_read"
           /\ UNCHANGED <<notInst, cloudVars, instVars, instLocals, cmd, todo, result, runs, prev>>

\* sync_dns: dns_zone.unbind(fqdn)?; Ok(())
\* -- MemDnsZone's whole method; one iteration of AwsDnsZone's loop over the types
DnsUnbind ==
    /\ pc = "dns_unbind"
    /\ LET i == Head(todo)
           fqdn == instFqdn[i].some
           z == dns_zone.some
           existing == find_record_set(awsRecordSets[z], fqdn, UnbindTypes[type_ix])
           last == type_ix = Len(UnbindTypes)
           returns == IF last THEN <<Call("unbind", z, fqdn, "ok")>> ELSE <<>>
       IN  \/ /\ backend = "mem"
              /\ memRecords' = [memRecords EXCEPT ![z] = MemUnbind(@, fqdn)]
              /\ calls' = Append(calls, Call("unbind", z, fqdn, "ok"))
              /\ pc' = "stop_read"
              /\ UNCHANGED <<notInst, cloudVars, instVars, awsRecordSets, instLocals, cmd, todo, result, runs, prev>>
           \/ /\ backend = "aws" /\ existing = None
              /\ calls' = calls \o returns
              /\ pc' = IF last THEN "stop_read" ELSE "dns_unbind"
              /\ type_ix' = IF last THEN 1 ELSE type_ix + 1
              /\ UNCHANGED <<notInst, cloudVars, instVars, dnsVars, state, observed, running_state, dns_zone,
                             cmd, todo, result, runs, prev>>
           \/ /\ backend = "aws" /\ existing # None
              /\ awsRecordSets' = [awsRecordSets EXCEPT ![z] = Delete(@, existing.some)]
              /\ calls' = calls \o <<Call("DELETE", z, existing.some, "ok")>> \o returns
              /\ pc' = IF last THEN "stop_read" ELSE "dns_unbind"
              /\ type_ix' = IF last THEN 1 ELSE type_ix + 1
              /\ UNCHANGED <<notInst, cloudVars, instVars, memRecords, state, observed, running_state, dns_zone,
                             cmd, todo, result, runs, prev>>
           \/ /\ backend = "aws"
              /\ InstAbort("failed to find existing DNS entry", <<Call("unbind", z, fqdn, "err")>>, state, observed)
           \/ /\ backend = "aws" /\ existing # None
              /\ InstAbort("failed to DELETE DNS entry",
                           <<Call("DELETE", z, existing.some, "err"), Call("unbind", z, fqdn, "err")>>,
                           state, observed)

(***************************************************************************)
(* Firewall commands: Open and Close on firewalls of any content.          *)
(***************************************************************************)
SmallSubsets(S, n) == {x \in SUBSET S : Cardinality(x) <= n}

FwNamings == {1 :> "a" @@ 2 :> "b"}

InitDispatcher ==
    /\ cmd = None
    /\ pc = "idle"
    /\ todo = <<>>
    /\ desired_rules = {}
    /\ existing_rules = {}
    /\ result = None
    /\ calls = <<>>
    /\ snapshot = [f \in FwIds |-> None]
    /\ synced = {}
    /\ runs = 0
    /\ prev = None
    /\ state = None
    /\ observed = None
    /\ running_state = None
    /\ dns_zone = None
    /\ type_ix = 1

\* MemCloud::create_instance: fresh_ip_addr
MemIp(i) == <<0, 0, 0, i>>

\* the names of the resources, as the tests of dispatch set them up
InitNames ==
    /\ external = FALSE
    /\ displayed = None /\ rendered = None /\ reparsed = None
    /\ fwName \in FwNamings
    /\ instName = 1 :> "a" @@ 2 :> "b"
    /\ zoneName = 1 :> ExampleCom @@ 2 :> SubExampleCom @@ 3 :> ExampleNet

\* no rule on any firewall
NoRules ==
    /\ memRules = [f \in FwIds |-> {}]
    /\ sgPerms = [f \in FwIds |-> {}]

\* no record in any zone
NoRecords ==
    /\ memRecords = [z \in ZoneIds |-> [n \in Fqdns |-> None]]
    /\ awsRecordSets = [z \in ZoneIds |-> {}]

\* two stopped instances of type t2.medium, without Fqdn tag
StoppedInstances ==
    /\ instFqdn = [i \in InstIds |-> None]
    /\ addressing = [i \in InstIds |-> {"ip", "dns"}]
    /\ memInst = [i \in InstIds |-> [instance_type |-> "t2.medium", ip_addr |-> MemIp(i), is_running |-> FALSE]]
    /\ awsInst = [i \in InstIds |-> Description(80, "t2.medium", None, None)]

InitFw ==
    /\ backend \in {"mem", "aws"}
    /\ InitNames
    /\ StoppedInstances
    /\ NoRecords
    /\ \E first \in SmallSubsets(ExistingRules, MaxExisting),
          second \in {{}, {IpIngressRule("9.9.9.9/32", Tcp(IpPortRange(22, 80)))}},
          stray \in SUBSET {IcmpPermission} :
        IF backend = "mem"
        THEN /\ memRules = 1 :> first @@ 2 :> second
             /\ sgPerms = [f \in FwIds |-> {}]
             /\ stray = {}
        ELSE /\ sgPerms = 1 :> (ip_permissions(first) \cup stray) @@ 2 :> ip_permissions(second)
             /\ memRules = [f \in FwIds |-> {}]
    /\ InitDispatcher

NextFw == DispatchOpen \/ DispatchClose \/ FwList \/ FwAdd \/ FwRemove

SpecFw == InitFw /\ [][NextFw]_vars

(***************************************************************************)
(* History read by the properties.                                         *)
(***************************************************************************)
\* the rule set R the firewall held when this dispatch read it
SnapshotRules(f) ==
    IF backend = "mem"
    THEN snapshot[f].some
    ELSE {r \in Rules : to_ip_permission(r) \in snapshot[f].some}

Reconciled == {f \in FwIds : snapshot[f] # None}

CallsOf(op, f) == {i \in DOMAIN calls : calls[i].op = op /\ calls[i].res = f}

ProviderRequests == {"authorize_security_group_ingress", "revoke_security_group_ingress"}

\* C1: once sync_firewall_rules has returned Ok(()) for a firewall, the firewall
\* holds exactly the desired rules: all of them and nothing else.
C1_RuleConvergence ==
    \A f \in synced :
        /\ ActualRules(f) = desired_rules
        /\ backend = "aws" => sgPerms[f] = ip_permissions(desired_rules)

\* a reconciliation that had to add and to remove and to keep has returned Ok(())
C1_Witness ==
    \E f \in synced :
        /\ SnapshotRules(f) \ desired_rules # {}
        /\ desired_rules \ SnapshotRules(f) # {}
        /\ desired_rules \cap SnapshotRules(f) # {}
        /\ result = Some(Ok)

\* C2: add_ingress_rules is passed exactly D \ R and remove_ingress_rules exactly
\* R \ D (rules compared as whole values); no rule of R \cap D is added or removed,
\* and no rule is both added and removed.
C2_ExactDifferences ==
    \A f \in Reconciled :
        LET R == SnapshotRules(f)
            D == desired_rules
        IN  /\ \A i \in CallsOf("add_ingress_rules", f) :
                  calls[i].arg = D \ R /\ calls[i].arg \cap (R \cap D) = {}
            /\ \A i \in CallsOf("remove_ingress_rules", f) :
                  calls[i].arg = R \ D /\ calls[i].arg \cap (R \cap D) = {}
            /\ \A i \in CallsOf("authorize_security_group_ingress", f) :
                  calls[i].arg = ip_permissions(D) \ snapshot[f].some
            /\ \A i \in CallsOf("revoke_security_group_ingress", f) :
                  calls[i].arg = snapshot[f].some \ ip_permissions(D)
            /\ \A i \in CallsOf("add_ingress_rules", f), j \in CallsOf("remove_ingress_rules", f) :
                  calls[i].arg \cap calls[j].arg = {}

\* both calls were made on a firewall that held a rule differing from a desired
\* one in the port range only, and one that is desired
C2_Witness ==
    \E f \in Reconciled :
        /\ CallsOf("add_ingress_rules", f) # {}
        /\ CallsOf("remove_ingress_rules", f) # {}
        /\ desired_rules \cap SnapshotRules(f) # {}
        /\ \E r \in SnapshotRules(f) \ desired_rules, d \in desired_rules \ SnapshotRules(f) :
              r.net = d.net /\ r.protocol.tag = d.protocol.tag /\ r.protocol.range # d.protocol.range

AddReturnedOk(f) == \E i \in CallsOf("add_ingress_rules", f) : calls[i].ret = "ok"

\* C4: the addition comes before the removal; at every moment of a reconciliation
\* the firewall holds every rule of R \cap D, and all of D once the addition has
\* returned Ok(()).
C4_AddBeforeRemove ==
    \A f \in Reconciled :
        /\ (SnapshotRules(f) \cap desired_rules) \subseteq ActualRules(f)
        /\ AddReturnedOk(f) => desired_rules \subseteq ActualRules(f)
        /\ \A j \in CallsOf("remove_ingress_rules", f) :
              \E i \in CallsOf("add_ingress_rules", f) : i < j /\ calls[i].ret = "ok"

\* between the addition and the removal: the firewall holds D and still the extras
C4_Witness ==
    /\ pc = "fw_remove"
    /\ AddReturnedOk(Head(todo))
    /\ SnapshotRules(Head(todo)) \cap desired_rules # {}
    /\ desired_rules \ SnapshotRules(Head(todo)) # {}
    /\ ActualRules(Head(todo)) \ desired_rules # {}

MutatingCalls ==
    {i \in DOMAIN calls : calls[i].op \in ProviderRequests \cup {"add_ingress_rules", "remove_ingress_rules"}}

SameAsAfterPrevious == memRules = prev.memRules /\ sgPerms = prev.sgPerms

\* C5: a command repeated after it succeeded adds nothing and removes nothing
\* (every missing and extra set it computes is empty) and leaves every rule set
\* as the first run left it; a Close that returned Ok(()) for a firewall leaves
\* it without rules.
C5_OpenCloseIdempotent ==
    /\ (prev # None /\ prev.result = Some(Ok) /\ cmd = prev.cmd) =>
          /\ SameAsAfterPrevious
          /\ \A i \in MutatingCalls : calls[i].arg = {} /\ calls[i].op \notin ProviderRequests
    /\ (cmd # None /\ cmd.kind = "close") =>
          \A f \in synced : ActualRules(f) = {} /\ sgPerms[f] = {} /\ memRules[f] = {}

\* a second Open of two firewalls, after the first Open changed them, is complete
C5_Witness ==
    /\ prev # None /\ prev.result = Some(Ok) /\ cmd = prev.cmd
    /\ cmd.kind = "open"
    /\ result = Some(Ok)
    /\ synced = FwIds
    /\ desired_rules # {}
    /\ \E i \in MutatingCalls : calls[i].op = "remove_ingress_rules"

(***************************************************************************)
(* Instance commands: Start and Stop on instances in any power state.      *)
(***************************************************************************)
\* the state codes the provider reports: the six it documents, one it does not,
\* and two with a bit of the high byte set
ProviderCodes == {0, 16, 32, 48, 64, 80, 7, 272, 263}

InitInst ==
    /\ backend \in {"mem", "aws"}
    /\ InitNames
    /\ NoRules
    /\ NoRecords
    /\ instFqdn \in {[i \in InstIds |-> None], 1 :> Some(InstSubExampleCom) @@ 2 :> Some(InstExampleOrg)}
    /\ \E code \in ProviderCodes, other \in {16, 80}, types \in {t \in [InstIds -> InstanceTypes] : t[2] = "t2.medium"},
          given \in {{}, {"ip"}, {"dns"}, {"ip", "dns"}} :
        /\ addressing = 1 :> given @@ 2 :> {"ip", "dns"}
        /\ IF backend = "mem"
           THEN /\ memInst = [i \in InstIds |-> [instance_type |-> types[i], ip_addr |-> MemIp(i),
                                                   is_running |-> IF i = 1 THEN code = 16 ELSE other = 16]]
                /\ awsInst = [i \in InstIds |-> Description(80, "t2.medium", None, None)]
                /\ code \in {16, 80}
                /\ given = {"ip"}
           ELSE /\ awsInst = [i \in InstIds |-> Described(i, IF i = 1 THEN code ELSE other, types[i])]
                /\ memInst = [i \in InstIds |-> [instance_type |-> "t2.medium", ip_addr |-> MemIp(i),
                                                   is_running |-> FALSE]]
    /\ InitDispatcher

NextInst ==
    \/ DispatchStart
    \/ DispatchStop
    \/ TypeEnsure
    \/ TypeChange
    \/ RunRead
    \/ RunStart
    \/ StopRead
    \/ StopStop
    \/ DnsFind
    \/ DnsBind
    \/ DnsUnbind
    \/ \E i \in InstIds : ProviderBoot(i)
    \/ \E i \in InstIds : ProviderHalt(i)

\* a step of dispatch on instances, as opposed to one of the provider
DispatchStep ==
    \/ DispatchStart
    \/ DispatchStop
    \/ TypeEnsure
    \/ TypeChange
    \/ RunRead
    \/ RunStart
    \/ StopRead
    \/ StopStop
    \/ DnsFind
    \/ DnsBind
    \/ DnsUnbind

SpecInst == InitInst /\ [][NextInst]_vars

(***************************************************************************)
(* Properties of Start and Stop.                                           *)
(***************************************************************************)
\* the calls and provider requests the step under way adds to the dispatch
Issued == IF pc \in {"idle", "done"} THEN calls' ELSE SubSeq(calls', Len(calls) + 1, Len(calls'))

IssuedOps == {Issued[k].op : k \in DOMAIN Issued}

\* the power state and type a read of instance i reports now
ReadsAs(i) == get_state(awsInst[i]).instance_state_code

IsRunning(i) == IF backend = "mem" THEN memInst[i].is_running ELSE ReadsAs(i) = Running

IsStopped(i) == IF backend = "mem" THEN ~memInst[i].is_running ELSE ReadsAs(i) = Stopped

TypeOf(i) == IF backend = "mem" THEN memInst[i].instance_type ELSE awsInst[i].instance_type

IsErr(r) == r # None /\ "err" \in DOMAIN r.some

DescribeFailed == Some(Err("failed to describe instance"))

\* C6: try_ensure_instance_type asks for the change of type only when the power
\* state it has just read is Stopped (MemInstance: only when the instance is not
\* running); with a differing type in any other power state it returns an error
\* in that very call, and no request for the change is made.
C6_TypeChangeOnlyWhenStopped ==
    [][DispatchStep =>
       /\ "modify_instance_attribute" \in IssuedOps =>
            /\ pc = "type_change"
            /\ state.instance_state_code = Stopped
            /\ FromU8(AsU8(observed.code)) = Stopped
       /\ \A j \in InstIds :
            memInst'[j].instance_type # memInst[j].instance_type => ~memInst[j].is_running
       /\ \A j \in InstIds :
            awsInst'[j].instance_type # awsInst[j].instance_type => FromU8(AsU8(awsInst[j].code)) = Stopped
       /\ (pc = "type_read" /\ TypeOf(Head(todo)) # cmd.instance_type.some /\ ~IsStopped(Head(todo))) =>
            /\ pc' = "done"
            /\ IsErr(result')
            /\ Issued = <<Call("try_ensure_instance_type", Head(todo), cmd.instance_type.some, "err")>>
            /\ instVars' = instVars
      ]_vars

\* a first Start was rejected for an instance on its way down, and the same Start
\* given again, the instance now stopped, has changed the type
C6_Witness ==
    /\ backend = "aws"
    /\ runs = 2
    /\ todo # <<>>
    /\ cmd.kind = "start"
    /\ cmd.instance_type # None
    /\ prev.result = Some(Err(MustBeStopped))
    /\ FromU8(AsU8(prev.awsInst[Head(todo)].code)) = Stopping
    /\ \E k \in DOMAIN calls : calls[k] = Call("modify_instance_attribute", Head(todo), cmd.instance_type.some, "ok")

\* C7: Start with a desired type on a running instance of another type fails with
\* "instance must be stopped to change its type" (on AWS, unless the describe
\* request itself failed); the type and the power state of the instance are as
\* before, and neither ensure_running nor a bind has been called for it.
C7_RunningTypeChangeRejected ==
    [][(DispatchStep /\ pc = "type_read" /\ IsRunning(Head(todo)) /\ TypeOf(Head(todo)) # cmd.instance_type.some) =>
            /\ pc' = "done"
            /\ result' \in {Some(Err(MustBeStopped))} \cup (IF backend = "aws" THEN {DescribeFailed} ELSE {})
            /\ memInst'[Head(todo)] = memInst[Head(todo)]
            /\ awsInst'[Head(todo)] = awsInst[Head(todo)]
            /\ \A k \in DOMAIN calls' :
                 /\ ~(calls'[k].op \in {"ensure_running", "start_instances"} /\ calls'[k].res = Head(todo))
                 /\ calls'[k].op = "bind" => instFqdn[Head(todo)] # Some(calls'[k].arg[1])
                 /\ calls'[k].op = "UPSERT" => instFqdn[Head(todo)] # Some(calls'[k].arg.name)
      ]_vars

\* the Start of two instances has started the first and was rejected for the second
C7_Witness ==
    /\ pc = "done"
    /\ cmd.kind = "start"
    /\ cmd.instance_type # None
    /\ result = Some(Err(MustBeStopped))
    /\ IsRunning(Head(todo))
    /\ TypeOf(Head(todo)) # cmd.instance_type.some
    /\ Len(todo) = 1
    /\ \E k \in DOMAIN calls : calls[k].op = "ensure_running" /\ calls[k].ret = "ok"

\* C8: try_ensure_instance_type with the type the instance already has returns
\* Ok(()) in every power state (on AWS, unless the describe request itself
\* failed), makes no request for a change of type and leaves the instance as it is.
C8_SameTypeIsNoOp ==
    [][(DispatchStep /\ pc = "type_read" /\ TypeOf(Head(todo)) = cmd.instance_type.some) =>
            /\ instVars' = instVars
            /\ "modify_instance_attribute" \notin IssuedOps
            /\ \/ /\ pc' = "run_read"
                  /\ result' = None
                  /\ Issued = <<Call("try_ensure_instance_type", Head(todo), cmd.instance_type.some, "ok")>>
               \/ backend = "aws" /\ result' = DescribeFailed
      ]_vars

\* try_ensure_instance_type has returned Ok(()) for a terminated instance of the
\* desired type
C8_Witness ==
    /\ backend = "aws"
    /\ pc = "run_read"
    /\ cmd.instance_type # None
    /\ ReadsAs(Head(todo)) = Terminated
    /\ TypeOf(Head(todo)) = cmd.instance_type.some
    /\ calls[Len(calls)] = Call("try_ensure_instance_type", Head(todo), cmd.instance_type.some, "ok")

\* the value ensure_running returns in the step under way, if it returns Ok
RunningReturned == {Issued[k].arg : k \in {j \in DOMAIN Issued : Issued[j].op = "ensure_running" /\ Issued[j].ret = "ok"}}

\* C9: AwsInstance::ensure_running returns Ok only in an iteration whose read
\* reported Running with an address, and the type and the address it returns are
\* those of that read; when Start names a desired type, the running state
\* returned has that type.
C9_RunningStateFromRead ==
    [][DispatchStep => \A running \in RunningReturned :
            /\ backend = "aws" =>
                 /\ observed' = awsInst[Head(todo)]
                 /\ FromU8(AsU8(observed'.code)) = Running
                 /\ running.instance_type = observed'.instance_type
                 /\ \/ running.addr.kind = "CNAME" /\ observed'.public_dns_name = Some(running.addr.value)
                    \/ /\ running.addr.kind = "A"
                       /\ observed'.public_ip_address = Some(Ipv4Addr_to_string(running.addr.value))
            /\ cmd.instance_type # None => running.instance_type = cmd.instance_type.some
      ]_vars

\* a Start has changed the type of a stopped instance, started it, and returned
\* its running state with the IPv4 address, the instance having no DNS name
C9_Witness ==
    /\ backend = "aws"
    /\ pc = "done"
    /\ cmd.kind = "start"
    /\ cmd.instance_type # None
    /\ result = Some(Ok)
    /\ running_state # None
    /\ \E k \in DOMAIN calls : calls[k].op = "modify_instance_attribute" /\ calls[k].ret = "ok"
    /\ \E k \in DOMAIN calls : calls[k].op = "start_instances" /\ calls[k].ret = "ok"
    /\ running_state.some.instance_type = cmd.instance_type.some
    /\ running_state.some.addr.kind = "A"

\* C10: when the read of ensure_running or ensure_stopped reports Terminating,
\* Terminated or Unknown, the call returns an error in that iteration, no start
\* or stop request is made, and dispatch ends with that error, the instances
\* left in the list untouched.
C10_TerminalStateAborts ==
    [][(/\ DispatchStep
        /\ backend = "aws"
        /\ pc \in {"run_read", "stop_read"}
        /\ ReadsAs(Head(todo)) \in {Terminating, Terminated} \cup {Unknown(x) : x \in 0..255}) =>
            /\ pc' = "done"
            /\ IsErr(result')
            /\ Len(Issued) = 1
            /\ Issued[1].op = (IF pc = "run_read" THEN "ensure_running" ELSE "ensure_stopped")
            /\ Issued[1].ret = "err"
            /\ todo' = todo
            /\ instVars' = instVars
            /\ dnsVars' = dnsVars
      ]_vars

\* the Stop of two instances has ended at the first, which is in a state the
\* adapter does not know
C10_Witness ==
    /\ backend = "aws"
    /\ pc = "done"
    /\ cmd.kind = "stop"
    /\ result = Some(Err("instance is in unknown state: 7"))
    /\ Len(todo) = 2
    /\ \A k \in DOMAIN calls : calls[k].op # "stop_instances"

\* C11: AwsInstance::ensure_stopped returns Ok only in an iteration whose read
\* reported Stopped, requests a stop only after a read that reported Running,
\* on Pending or Stopping requests nothing and reads again, and never requests
\* a start or a change of type.
C11_StoppedFromRead ==
    [][DispatchStep =>
       /\ (backend = "aws" /\ \E k \in DOMAIN Issued : Issued[k].op = "ensure_stopped" /\ Issued[k].ret = "ok") =>
            /\ pc = "stop_read"
            /\ observed' = awsInst[Head(todo)]
            /\ FromU8(AsU8(observed'.code)) = Stopped
       /\ "stop_instances" \in IssuedOps =>
            /\ pc = "stop_stop"
            /\ FromU8(AsU8(observed.code)) = Running
            /\ state.instance_state_code = Running
       /\ (backend = "aws" /\ pc = "stop_read" /\ ReadsAs(Head(todo)) \in {Pending, Stopping}) =>
            /\ Issued = <<>> \/ (IsErr(result') /\ result' = DescribeFailed)
            /\ result' = None => pc' = "stop_read"
            /\ instVars' = instVars
       /\ pc \in {"stop_read", "stop_stop"} =>
            IssuedOps \cap {"start_instances", "modify_instance_attribute"} = {}
      ]_vars

\* a Stop has found the instance running, requested the stop, waited while it
\* was stopping, and returned once it read Stopped
C11_Witness ==
    /\ backend = "aws"
    /\ pc = "done"
    /\ cmd.kind = "stop"
    /\ result = Some(Ok)
    /\ \E k \in DOMAIN calls : calls[k].op = "stop_instances" /\ calls[k].ret = "ok"
    /\ state.instance_state_code = Stopped

\* the outcome of ensure_running in the step under way: the address returned,
\* or the error dispatch ends with
RunOutcome ==
    IF RunningReturned # {}
    THEN {Ok @@ [addr |-> running.addr] : running \in RunningReturned}
    ELSE {result'}

\* C12: for an instance read as Running, ensure_running returns the public DNS
\* name as Cname whenever the description has one, the IPv4 address as A only
\* when it has no DNS name and has an IP address, and an error when it has
\* neither (on AWS the describe request itself may fail instead).
C12_AddressPreference ==
    [][(DispatchStep /\ backend = "aws" /\ pc = "run_read" /\ ReadsAs(Head(todo)) = Running
          /\ result' # DescribeFailed) =>
       LET d == awsInst[Head(todo)]
       IN  /\ d.public_dns_name # None =>
                RunOutcome = {Ok @@ [addr |-> [kind |-> "CNAME", value |-> d.public_dns_name.some]]}
           /\ (d.public_dns_name = None /\ d.public_ip_address # None) =>
                /\ RunningReturned # {}
                /\ \A o \in RunOutcome : /\ o.addr.kind = "A"
                                          /\ Ipv4Addr_to_string(o.addr.value) = d.public_ip_address.some
           /\ (d.public_dns_name = None /\ d.public_ip_address = None) =>
                /\ RunningReturned = {}
                /\ result' = Some(Err("expected running instance to have IPv4 address"))
                /\ pc' = "done"
      ]_vars

\* ensure_running has returned the DNS name of an instance that has an IP
\* address as well
C12_Witness ==
    /\ backend = "aws"
    /\ running_state # None
    /\ running_state.some.addr.kind = "CNAME"
    /\ observed # None
    /\ observed.public_ip_address # None
    /\ observed.public_dns_name = Some(running_state.some.addr.value)

\* the mapping of codes to power states as a table over the values v
CodeTable(v) ==
    CASE v = 0 -> [tag |-> "Pending"]
      [] v = 16 -> [tag |-> "Running"]
      [] v = 32 -> [tag |-> "Terminating"]
      [] v = 48 -> [tag |-> "Terminated"]
      [] v = 64 -> [tag |-> "Stopping"]
      [] v = 80 -> [tag |-> "Stopped"]
      [] OTHER -> [tag |-> "Unknown", x |-> v]

\* C13 as stated: the power state a read reports is the table's entry for the
\* provider's code v, Unknown(v) for every v that is not one of the six.
C13_Original ==
    (backend = "aws" /\ observed # None) => state.instance_state_code = CodeTable(observed.code)

\* C13 as amended: the power state a read reports is the table's entry for the
\* low byte of the provider's code, Unknown(low byte) when the low byte is not
\* one of the six.
C13_CodeMapping ==
    (backend = "aws" /\ observed # None) => state.instance_state_code = CodeTable(observed.code % 256)

\* a read of an instance whose code is 272 has reported Running
C13_Witness ==
    /\ backend = "aws"
    /\ observed # None
    /\ observed.code = 272
    /\ state.instance_state_code = Running

(***************************************************************************)
(* find_authoritative_zone over zones of any names: Stop on an instance    *)
(* with an Fqdn, up to the zone found.                                     *)
(***************************************************************************)
ZoneNames == {ExampleCom, ExampleComDot, Sub1ExampleCom, Sub2ExampleCom, UnrelatedSub1ExampleCom, ExampleNet}

ResolvedNames == {XSub1ExampleCom, XSub3ExampleCom, XUnrelatedSub1ExampleCom, XExampleOrg}

InitZone ==
    /\ backend \in {"mem", "aws"}
    /\ external = FALSE
    /\ displayed = None /\ rendered = None /\ reparsed = None
    /\ fwName \in FwNamings
    /\ instName = 1 :> "a" @@ 2 :> "b"
    /\ zoneName \in [ZoneIds -> ZoneNames]
    /\ NoRules
    /\ NoRecords
    /\ \E name \in ResolvedNames : instFqdn = 1 :> Some(name) @@ 2 :> None
    /\ addressing = [i \in InstIds |-> {"ip", "dns"}]
    /\ memInst = [i \in InstIds |-> [instance_type |-> "t2.medium", ip_addr |-> MemIp(i), is_running |-> FALSE]]
    /\ awsInst = [i \in InstIds |-> Description(80, "t2.medium", None, None)]
    /\ InitDispatcher

NextZone ==
    \/ DispatchStop
    \/ DnsFind

SpecZone == InitZone /\ [][NextZone]_vars

\* the labels of zone are the last labels of name
IsLabelSuffix(zone, name) == ends_with(split_terminator(name), split_terminator(zone))

NumLabels(name) == Len(split_terminator(name))

\* C14: the zone find_authoritative_zone returns is one whose labels are the
\* last whole labels of the name, and no zone listed whose labels are has more
\* labels; x.sub1.example.com resolves to sub1.example.com when that zone is
\* listed, and x.sub3.example.com never resolves to a zone under example.com.
C14_MostSpecificZone ==
    (pc = "dns_unbind" /\ dns_zone # None) =>
        LET name == instFqdn[Head(todo)].some
            found == zoneName[dns_zone.some]
        IN  /\ IsLabelSuffix(found, name)
            /\ \A y \in ZoneIds : IsLabelSuffix(zoneName[y], name) => NumLabels(zoneName[y]) <= NumLabels(found)
            /\ (name = XSub1ExampleCom /\ \E y \in ZoneIds : zoneName[y] = Sub1ExampleCom) => found = Sub1ExampleCom
            /\ name \in {XSub3ExampleCom, XUnrelatedSub1ExampleCom} => found \in {ExampleCom, ExampleComDot}

\* among example.com, sub1.example.com and sub2.example.com, example.com was
\* found for x.unrelated-sub1.example.com, which ends with the characters of
\* sub1.example.com
C14_Witness ==
    /\ pc = "dns_unbind"
    /\ dns_zone # None
    /\ instFqdn[Head(todo)] = Some(XUnrelatedSub1ExampleCom)
    /\ zoneName = 1 :> ExampleCom @@ 2 :> Sub1ExampleCom @@ 3 :> Sub2ExampleCom
    /\ zoneName[dns_zone.some] = ExampleCom

\* C15: when the labels of no listed zone are the last labels of the name,
\* find_authoritative_zone returns an error, dispatch ends with it, and the
\* sync_dns that called it has bound and unbound nothing: no record of any
\* zone has changed and no request was made.
C15_NoZoneNoBinding ==
    [][(/\ DispatchStep
        /\ pc = "dns_find"
        /\ \A z \in ZoneIds : ~IsLabelSuffix(zoneName[z], instFqdn[Head(todo)].some)) =>
            /\ pc' = "done"
            /\ IsErr(result')
            /\ backend = "mem" => result' = Some(Err("could not find authoritative DNS zone"))
            /\ Issued = <<Call("find_authoritative_zone", Head(todo), {}, "err")>>
            /\ dnsVars' = dnsVars
      ]_vars

\* a Start has brought the instance up and then found no zone for its name
C15_Witness ==
    /\ pc = "done"
    /\ cmd.kind = "start"
    /\ result = Some(Err("could not find authoritative DNS zone"))
    /\ instFqdn[Head(todo)] = Some(InstExampleOrg)
    /\ \E k \in DOMAIN calls : calls[k].op = "ensure_running" /\ calls[k].ret = "ok" /\ calls[k].res = Head(todo)
    /\ \A k \in DOMAIN calls : calls[k].op \notin {"bind", "unbind", "UPSERT", "DELETE"}

(***************************************************************************)
(* Start and Stop of an instance with an Fqdn, the zones holding records   *)
(* from before.                                                            *)
(***************************************************************************)
\* the addresses earlier records point to
OldIp == <<3, 3, 3, 2>>

OldDns == "ec2-3-3-3-2.compute.amazonaws.com"

\* what the zone sub.example.com may hold at first: nothing, or a record of
\* either kind for the name of the instance, and records for no, one or two
\* other names
PriorTargets == {None, Some(A(OldIp)), Some(Cname(OldDns))}

OtherTargets == {None, Some(A(OldIp))}

RecordSetsOf(name, target) == IF target = None THEN {} ELSE {desired_record_set(name, target.some)}

InitDns ==
    /\ backend \in {"mem", "aws"}
    /\ InitNames
    /\ NoRules
    /\ instFqdn = 1 :> Some(InstSubExampleCom) @@ 2 :> None
    /\ \E prior \in PriorTargets, other \in OtherTargets, another \in OtherTargets :
        /\ another # None => other # None
        /\ memRecords = [z \in ZoneIds |-> [n \in Fqdns |->
                            IF z = 2 /\ n = InstSubExampleCom THEN prior
                            ELSE IF z = 2 /\ n = XSubExampleCom THEN other
                            ELSE IF z = 2 /\ n = YSubExampleCom THEN another ELSE None]]
        /\ awsRecordSets = [z \in ZoneIds |->
                            IF z = 2
                            THEN RecordSetsOf(InstSubExampleCom, prior) \cup RecordSetsOf(XSubExampleCom, other)
                                    \cup RecordSetsOf(YSubExampleCom, another)
                            ELSE {}]
    /\ \E code \in {16, 80}, given \in {{"ip"}, {"ip", "dns"}} :
        /\ addressing = 1 :> given @@ 2 :> {"ip", "dns"}
        /\ memInst = [i \in InstIds |-> [instance_type |-> "t2.medium", ip_addr |-> MemIp(i),
                                          is_running |-> i = 1 /\ code = 16]]
        /\ awsInst = [i \in InstIds |-> Described(i, IF i = 1 THEN code ELSE 80, "t2.medium")]
    /\ InitDispatcher

SpecDns == InitDns /\ [][NextInst]_vars

(***************************************************************************)
(* Properties of the records.                                              *)
(***************************************************************************)
\* the targets zone z holds for name n
RecordsFor(z, n) ==
    IF backend = "mem"
    THEN IF memRecords[z][n] = None THEN {} ELSE {memRecords[z][n].some}
    ELSE {[kind |-> r.type_, value |-> r.value] : r \in {q \in awsRecordSets[z] : q.name = n}}

\* the same after the step under way
RecordsForNext(z, n) ==
    IF backend = "mem"
    THEN IF memRecords'[z][n] = None THEN {} ELSE {memRecords'[z][n].some}
    ELSE {[kind |-> r.type_, value |-> r.value] : r \in {q \in awsRecordSets'[z] : q.name = n}}

\* the target as the zone holds it: an address in its string form
Held(target) == IF backend = "aws" /\ target.kind = "A" THEN A(Ipv4Addr_to_string(target.value)) ELSE target

\* the provider failed a request of the step under way for a reason of its own
RequestFailed == \E k \in DOMAIN Issued : Issued[k].ret = "err" /\ Issued[k].op \in {"UPSERT", "DELETE"}

\* C16 as stated: no zone ever holds two records for a name, and bind, unless
\* the request itself fails, leaves the new target as the zone's only record
\* for the name, whatever the kind of the record held before.
C16_Original ==
    [][DispatchStep =>
       /\ \A z \in ZoneIds, n \in Fqdns : Cardinality(RecordsForNext(z, n)) <= 1
       /\ (pc = "dns_bind" /\ ~RequestFailed) =>
            RecordsForNext(dns_zone.some, instFqdn[Head(todo)].some) = {Held(running_state.some.addr)}
      ]_vars

\* C17 as stated: unbind, unless a request itself fails, leaves no record for
\* the name once it has returned, and leaves every record of another name, in
\* this zone or another, as it was.
C17_Original ==
    [][(DispatchStep /\ pc = "dns_unbind") =>
       /\ \A z \in ZoneIds, n \in Fqdns :
            (z # dns_zone.some \/ n # instFqdn[Head(todo)].some) => RecordsForNext(z, n) = RecordsFor(z, n)
       /\ pc' = "stop_read" => RecordsForNext(dns_zone.some, instFqdn[Head(todo)].some) = {}
      ]_vars

\* the name and target of the bind or UPSERT logged at k
BoundName(k) == IF calls[k].op = "bind" THEN calls[k].arg[1] ELSE calls[k].arg.name

BoundTarget(k) ==
    IF calls[k].op = "bind" THEN Held(calls[k].arg[2]) ELSE [kind |-> calls[k].arg.type_, value |-> calls[k].arg.value]

\* C18: in a Start, a bind (and the UPSERT it makes) for the name of an
\* instance is logged only after ensure_running has returned Ok for that
\* instance in this dispatch, and its target is the address that call returned.
C18_BindAfterRunning ==
    \A k \in DOMAIN calls :
        calls[k].op \in {"bind", "UPSERT"} =>
            /\ cmd.kind = "start"
            /\ \E j \in 1..(k - 1) :
                 /\ calls[j].op = "ensure_running"
                 /\ calls[j].ret = "ok"
                 /\ instFqdn[calls[j].res] = Some(BoundName(k))
                 /\ BoundTarget(k) = Held(calls[j].arg.addr)

\* a Start has requested the start of a stopped instance, waited for it to
\* run, and bound its name to the address read
C18_Witness ==
    /\ pc = "done"
    /\ result = Some(Ok)
    /\ backend = "aws"
    /\ \E j, k \in DOMAIN calls :
         /\ j < k
         /\ calls[j].op = "start_instances" /\ calls[j].ret = "ok"
         /\ calls[k].op = "UPSERT" /\ calls[k].ret = "ok"
         /\ instFqdn[calls[j].res] = Some(calls[k].arg.name)

\* unbind has returned Ok for the name of instance i, in the zone found for
\* it, before the entry at k of this dispatch's log
UnboundBefore(i, k) ==
    \E f, u \in 1..(k - 1) :
        /\ f < u
        /\ calls[f].op = "find_authoritative_zone" /\ calls[f].res = i /\ calls[f].ret = "ok"
        /\ calls[u] = Call("unbind", calls[f].arg, instFqdn[i].some, "ok")
        /\ RecordsFor(calls[f].arg, instFqdn[i].some) = {}

\* C19: in a Stop, for an instance with an Fqdn, ensure_stopped is entered, and
\* a stop requested, only after unbind has returned Ok for its name, and from
\* then on the zone found for the name holds no record for it.
C19_UnbindBeforeStop ==
    (runs > 0 /\ cmd.kind = "stop") =>
        /\ (pc \in {"stop_read", "stop_stop"} /\ instFqdn[Head(todo)] # None) =>
                UnboundBefore(Head(todo), Len(calls) + 1)
        /\ \A k \in DOMAIN calls :
                (calls[k].op \in {"stop_instances", "ensure_stopped"} /\ instFqdn[calls[k].res] # None) =>
                    UnboundBefore(calls[k].res, k)

\* a Stop has deleted the record of the name, then requested the stop of the
\* instance and seen it stopped
C19_Witness ==
    /\ pc = "done"
    /\ cmd.kind = "stop"
    /\ result = Some(Ok)
    /\ \E d, k \in DOMAIN calls :
         /\ d < k
         /\ calls[d].op = "DELETE" /\ calls[d].ret = "ok" /\ calls[d].arg.name = InstSubExampleCom
         /\ calls[k].op = "stop_instances" /\ calls[k].ret = "ok" /\ instFqdn[calls[k].res] = Some(InstSubExampleCom)

\* the zones whose labels are the last whole labels of name n and that have
\* the most labels among those
Authoritative(n) ==
    {z \in ZoneIds :
        /\ IsLabelSuffix(zoneName[z], n)
        /\ \A y \in ZoneIds : IsLabelSuffix(zoneName[y], n) => NumLabels(zoneName[y]) <= NumLabels(zoneName[z])}

\* the zones that hold a record for name n
Holders(n) == {z \in ZoneIds : RecordsFor(z, n) # {}}

\* C20: from zones without records, once a Start has returned Ok, for every
\* instance with an Fqdn that it saw running, exactly one zone holds a record
\* for the name, that zone is the authoritative one, its only record for the
\* name is the address ensure_running returned, and no other zone holds one.
C20_OneRecordInAuthoritativeZone ==
    (pc = "done" /\ runs > 0 /\ cmd.kind = "start" /\ result = Some(Ok)) =>
        \A k \in DOMAIN calls :
            (calls[k].op = "ensure_running" /\ calls[k].ret = "ok" /\ instFqdn[calls[k].res] # None) =>
                LET n == instFqdn[calls[k].res].some
                IN  /\ Cardinality(Holders(n)) = 1
                    /\ Holders(n) = Authoritative(n)
                    /\ \A z \in Holders(n) : RecordsFor(z, n) = {Held(calls[k].arg.addr)}

\* a first Start has returned Ok for the instance named inst.sub.example.com,
\* and sub.example.com holds a record for that name
C20_Witness ==
    /\ pc = "done"
    /\ runs = 1
    /\ cmd.kind = "start"
    /\ result = Some(Ok)
    /\ \E k \in DOMAIN calls :
         /\ calls[k].op = "ensure_running" /\ calls[k].ret = "ok"
         /\ instFqdn[calls[k].res] = Some(InstSubExampleCom)
    /\ \E z \in ZoneIds : zoneName[z] = SubExampleCom /\ RecordsFor(z, InstSubExampleCom) # {}

(***************************************************************************)
(* Properties of a command given again.                                    *)
(***************************************************************************)
\* the instances the command under way names
NamedInstances == {i \in InstIds : instName[i] \in cmd.names}

\* the records are those the previous dispatch left
SameRecordsAsAfterPrevious == memRecords = prev.memRecords /\ awsRecordSets = prev.awsRecordSets

\* the instance is as the previous dispatch left it
SameInstanceAsAfterPrevious(i) == memInst[i] = prev.memInst[i] /\ awsInst[i] = prev.awsInst[i]

\* the previous dispatch was of the same command and returned Ok
Repeated(kind) == prev # None /\ prev.result = Some(Ok) /\ cmd = prev.cmd /\ cmd.kind = kind

\* the errors of the provider's own making: a request that did not go through
RequestErrors ==
    {Some(Err(m)) : m \in {"failed to describe instances", "failed to describe instance", "failed to stop instance",
                           "failed to list hosted zones",
                           "failed to find existing DNS entry", "failed to DELETE DNS entry"}}

\* C21 as stated: a Start given again after it succeeded leaves the power
\* state, the type and the records as the first left them; after a Stop that
\* succeeded every named instance is Stopped and no zone holds a record for
\* its name; a Stop given again requests no stop, succeeds (unless a request
\* of its own fails), and leaves the instances and the records of every zone
\* as they were.
C21_Original ==
    /\ Repeated("start") =>
          /\ \A i \in NamedInstances : SameInstanceAsAfterPrevious(i)
          /\ SameRecordsAsAfterPrevious
    /\ (runs > 0 /\ pc = "done" /\ cmd.kind = "stop" /\ result = Some(Ok)) =>
          \A i \in NamedInstances :
              /\ IsStopped(i)
              /\ instFqdn[i] # None => \A z \in ZoneIds : RecordsFor(z, instFqdn[i].some) = {}
    /\ Repeated("stop") =>
          /\ \A k \in DOMAIN calls : calls[k].op # "stop_instances"
          /\ \A i \in NamedInstances : SameInstanceAsAfterPrevious(i)
          /\ pc = "done" => result \in {Some(Ok)} \cup RequestErrors
          /\ SameRecordsAsAfterPrevious

(***************************************************************************)
(* All four commands on one cloud: firewalls that hold rules, instances in *)
(* several power states, zones without records.                            *)
(***************************************************************************)
\* what the first firewall may hold before the first command
FirstRules == {{IpIngressRule("1.1.0.0/16", Tcp(IpPortRange(22, 80))), IpIngressRule("9.9.9.9/32", Tcp(IpPortRange(22, 22)))}}

\* what the second firewall holds before the first command
SecondRules == {IpIngressRule("9.9.9.9/32", Tcp(IpPortRange(22, 80)))}

InitAll ==
    /\ backend \in {"mem", "aws"}
    /\ InitNames
    /\ NoRecords
    /\ instFqdn = 1 :> Some(InstSubExampleCom) @@ 2 :> None
    /\ addressing = [i \in InstIds |-> {"ip"}]
    /\ \E first \in FirstRules, code \in {16, 80} :
        IF backend = "mem"
        THEN /\ memRules = 1 :> first @@ 2 :> SecondRules
             /\ sgPerms = [f \in FwIds |-> {}]
             /\ code \in {16, 80}
             /\ memInst = [i \in InstIds |-> [instance_type |-> "t2.medium", ip_addr |-> MemIp(i),
                                               is_running |-> i = 1 /\ code = 16]]
             /\ awsInst = [i \in InstIds |-> Description(80, "t2.medium", None, None)]
        ELSE /\ sgPerms = 1 :> ip_permissions(first) @@ 2 :> ip_permissions(SecondRules)
             /\ memRules = [f \in FwIds |-> {}]
             /\ awsInst = [i \in InstIds |-> Described(i, IF i = 1 THEN code ELSE 80, "t2.medium")]
             /\ memInst = [i \in InstIds |-> [instance_type |-> "t2.medium", ip_addr |-> MemIp(i),
                                               is_running |-> FALSE]]
    /\ InitDispatcher

NextAll ==
    \/ DispatchOpen
    \/ DispatchClose
    \/ FwList
    \/ FwAdd
    \/ FwRemove
    \/ DispatchStart
    \/ DispatchStop
    \/ TypeEnsure
    \/ TypeChange
    \/ RunRead
    \/ RunStart
    \/ StopRead
    \/ StopStop
    \/ DnsFind
    \/ DnsBind
    \/ DnsUnbind
    \/ \E i \in InstIds : ProviderBoot(i)
    \/ \E i \in InstIds : ProviderHalt(i)

SpecAll == InitAll /\ [][NextAll]_vars

\* a step of dispatch, as opposed to one of the provider
CommandStep == DispatchOpen \/ DispatchClose \/ FwList \/ FwAdd \/ FwRemove \/ DispatchStep

(***************************************************************************)
(* Properties of dispatch as a whole.                                      *)
(***************************************************************************)
\* the step under way logs a call or a request that did not return Ok
Failing == \E k \in DOMAIN Issued : Issued[k].ret # "ok"

FirewallOps ==
    {"list_ingress_rules", "add_ingress_rules", "remove_ingress_rules"} \cup ProviderRequests

InstanceOps ==
    {"try_ensure_instance_type", "modify_instance_attribute", "ensure_running", "start_instances",
     "ensure_stopped", "stop_instances", "find_authoritative_zone"}

\* the ops logged so far, the step under way included, for the resource at
\* position idx of the list
OpsOnListed(idx) ==
    {calls'[k].op : k \in {j \in DOMAIN calls' : /\ calls'[j].op \in FirewallOps \cup InstanceOps
                                                   /\ calls'[j].res = todo[idx]}}

\* C22: the step in which a capability call returns an error ends dispatch
\* with an error; the failed call is the last one logged, the list is left
\* where it was and no firewall, instance or record changes in that step; no
\* call has been made on a resource later in the list; after a failed read of
\* a firewall no add or remove has been made on it, after a failed add no
\* remove; and once dispatch has returned, the only step is the next dispatch.
C22_FailFast ==
    [][CommandStep =>
       /\ pc = "done" => runs' = runs + 1
       /\ Failing =>
            /\ pc' = "done"
            /\ IsErr(result')
            /\ Issued[Len(Issued)].ret = "err"
            /\ \A k \in 1..(Len(Issued) - 1) : k = Len(Issued) - 1 /\ Issued[k].op \notin FirewallOps \ ProviderRequests
            /\ <<fwVars, instVars, dnsVars>>' = <<fwVars, instVars, dnsVars>>
            /\ pc \notin {"idle", "done"} =>
                 /\ todo' = todo
                 /\ \A idx \in 2..Len(todo) : OpsOnListed(idx) = {}
            /\ pc = "fw_list" => OpsOnListed(1) = {"list_ingress_rules"}
            /\ pc = "fw_add" => OpsOnListed(1) \cap {"remove_ingress_rules", "revoke_security_group_ingress"} = {}
      ]_vars

\* an Open of two firewalls has ended at the first, whose add failed: nothing
\* was removed from it and the second was not read
C22_Witness ==
    /\ pc = "done"
    /\ IsErr(result)
    /\ Len(todo) = 2
    /\ calls[Len(calls)].op = "add_ingress_rules"
    /\ calls[Len(calls)].ret = "err"
    /\ ActualRules(Head(todo)) \ desired_rules # {}

\* the firewalls the command under way names
NamedFirewalls == {f \in FwIds : fwName[f] \in cmd.names}

\* C23: when an Open or Close that ended with an error is given again and
\* this time returns Ok, every firewall it names holds exactly the desired
\* rules, the cross product of the command's lists for Open and none for
\* Close, whatever the first run had added or removed before it failed.
C23_RetryConverges ==
    (prev # None /\ IsErr(prev.result) /\ cmd = prev.cmd /\ pc = "done" /\ result = Some(Ok)) =>
        /\ desired_rules = (IF cmd.kind = "open"
                            THEN {IpIngressRule(c, q) : c \in Range(cmd.ip_cidrs), q \in Range(cmd.ip_protocols)}
                            ELSE {})
        /\ \A f \in NamedFirewalls :
             /\ ActualRules(f) = desired_rules
             /\ backend = "aws" => sgPerms[f] = ip_permissions(desired_rules)

\* an Open of two firewalls that failed at a removal, its additions made, was
\* given again and returned Ok, removing what the first run had left
C23_Witness ==
    /\ prev # None
    /\ prev.result = Some(Err("failed to revoke ingress for security group"))
    /\ cmd = prev.cmd
    /\ cmd.kind = "open"
    /\ pc = "done"
    /\ result = Some(Ok)
    /\ NamedFirewalls = FwIds
    /\ \E f \in FwIds : parsed_rules(prev.sgPerms[f]) \ desired_rules # {} /\ desired_rules \subseteq parsed_rules(prev.sgPerms[f])
    /\ \E k \in DOMAIN calls : calls[k].op = "revoke_security_group_ingress" /\ calls[k].ret = "ok"

\* the resources the command of the step under way names, of the kind it is about
NamedBy(c) ==
    IF c.kind \in {"open", "close"}
    THEN {f \in FwIds : fwName[f] \in c.names}
    ELSE {i \in InstIds : instName[i] \in c.names}

\* C24: the list a command works through holds the resources whose name is
\* in its name list, each once, and no other; every call it logs is on one
\* of them; and no step of it changes the rule set of a firewall, or the
\* power state or type of an instance, whose name is not in the list.
C24_OnlyNamedResources ==
    [][CommandStep =>
       /\ (pc \in {"idle", "done"} /\ calls'[1].ret = "ok") =>
            /\ Range(todo') = NamedBy(cmd')
            /\ Len(todo') = Cardinality(NamedBy(cmd'))
       /\ Range(todo') \subseteq NamedBy(cmd')
       /\ \A k \in DOMAIN calls' :
            calls'[k].op \in FirewallOps \cup InstanceOps => calls'[k].res \in NamedBy(cmd')
       /\ \A f \in FwIds :
            fwName[f] \notin cmd'.names => memRules'[f] = memRules[f] /\ sgPerms'[f] = sgPerms[f]
       /\ \A i \in InstIds :
            instName[i] \notin cmd'.names => memInst'[i] = memInst[i] /\ awsInst'[i] = awsInst[i]
      ]_vars

\* an Open and then a Close of the firewall named "a" have returned Ok: it
\* holds no rule, and the firewall named "b" holds the rule it held at first
C24_Witness ==
    /\ runs = 2
    /\ pc = "done"
    /\ result = Some(Ok)
    /\ cmd = [kind |-> "close", names |-> {"a"}]
    /\ prev.cmd.kind = "open"
    /\ prev.result = Some(Ok)
    /\ \E f, g \in FwIds :
         /\ fwName[f] = "a" /\ ActualRules(f) = {} /\ prev.memRules[f] \cup prev.sgPerms[f] # {}
         /\ fwName[g] = "b" /\ ActualRules(g) = SecondRules

\* the ops logged, the step under way included
OpsLogged == {calls'[k].op : k \in DOMAIN calls'}

DnsOps == {"bind", "unbind", "UPSERT", "DELETE"}

\* C25: no step of an Open or a Close changes an instance or a record, reads
\* an instance, looks up a zone or logs a call on either; no step of a Start
\* or a Stop changes a rule set, reads one or logs a call on a firewall.
C25_KindsApart ==
    [][CommandStep =>
       /\ cmd'.kind \in {"open", "close"} =>
            /\ <<instVars, dnsVars, instLocals>>' = <<instVars, dnsVars, instLocals>>
            /\ OpsLogged \cap (InstanceOps \cup DnsOps \cup {"list_instances"}) = {}
       /\ cmd'.kind \in {"start", "stop"} =>
            /\ <<fwVars, fwLocals>>' = <<fwVars, fwLocals>>
            /\ OpsLogged \cap (FirewallOps \cup {"list_firewalls"}) = {}
      ]_vars

\* an Open has put its rules on the firewalls it names, and the Stop of the
\* instances of the same names that followed has stopped a running instance
\* and left every rule set as the Open left it
C25_Witness ==
    /\ runs = 2
    /\ pc = "done"
    /\ result = Some(Ok)
    /\ cmd.kind = "stop"
    /\ prev.cmd.kind = "open"
    /\ prev.result = Some(Ok)
    /\ desired_rules # {}
    /\ \E f \in FwIds : ActualRules(f) = desired_rules
    /\ \E i \in InstIds : (prev.memInst[i].is_running \/ prev.awsInst[i].code = 16) /\ IsStopped(i)
    /\ memRules = prev.memRules
    /\ sgPerms = prev.sgPerms

\* the networks and the protocols an Open names, whatever their order and
\* however often each is named
NamedCidrs == Range(cmd.ip_cidrs)

NamedProtocols == Range(cmd.ip_protocols)

\* C26: throughout an Open the desired rule set is the set of the pairs of a
\* network and a protocol the command names: one rule for each pair, however
\* the lists are ordered and however often they name a value; every add and
\* remove of the dispatch is computed against that one set, and every
\* firewall whose reconciliation returned Ok holds exactly that set.
C26_DesiredIsCrossProduct ==
    (cmd # None /\ cmd.kind = "open") =>
        /\ desired_rules = {IpIngressRule(c, q) : c \in NamedCidrs, q \in NamedProtocols}
        /\ Cardinality(desired_rules) = Cardinality(NamedCidrs) * Cardinality(NamedProtocols)
        /\ \A k \in DOMAIN calls :
             /\ calls[k].op = "add_ingress_rules" =>
                  calls[k].arg = {IpIngressRule(c, q) : c \in NamedCidrs, q \in NamedProtocols} \ SnapshotRules(calls[k].res)
             /\ calls[k].op = "remove_ingress_rules" =>
                  calls[k].arg = SnapshotRules(calls[k].res) \ {IpIngressRule(c, q) : c \in NamedCidrs, q \in NamedProtocols}
        /\ \A f \in synced : ActualRules(f) = {IpIngressRule(c, q) : c \in NamedCidrs, q \in NamedProtocols}

\* an Open that names one network twice and two protocols has put the two
\* rules on both firewalls
C26_Witness ==
    /\ cmd # None
    /\ cmd.kind = "open"
    /\ cmd.ip_cidrs = <<"9.9.9.9/32", "9.9.9.9/32">>
    /\ Cardinality(NamedProtocols) = 2
    /\ Cardinality(desired_rules) = 2
    /\ synced = FwIds
    /\ result = Some(Ok)

(***************************************************************************)
(* The loops of ensure_running and ensure_stopped.                         *)
(***************************************************************************)
\* the adapter is in one of the two loops and the instance reads as on its
\* way up or down
Waiting ==
    /\ backend = "aws"
    /\ pc \in {"run_read", "stop_read"}
    /\ ReadsAs(Head(todo)) \in {Pending, Stopping}

\* C27: an iteration of ensure_running or ensure_stopped whose read reports
\* Pending or Stopping, however many came before it, ends in the same loop:
\* the call has not returned, no request and no call is logged, no instance
\* or record has changed, and the list is where it was, so that no later
\* instance is reached while the reads go on reporting Pending or Stopping.
C27_WaitsWithoutBound ==
    [][(DispatchStep /\ Waiting /\ result' # DescribeFailed) =>
            /\ pc' = pc
            /\ result' = None
            /\ Issued = <<>>
            /\ todo' = todo
            /\ state'.instance_state_code \in {Pending, Stopping}
            /\ <<instVars, dnsVars, running_state>>' = <<instVars, dnsVars, running_state>>
      ]_vars

\* a Start of two instances is in the loop of ensure_running for the first,
\* which it has read as Pending and which is Pending still; the second has
\* not been reached
C27_Witness ==
    /\ backend = "aws"
    /\ pc = "run_read"
    /\ cmd.kind = "start"
    /\ Len(todo) = 2
    /\ state # None
    /\ state.instance_state_code = Pending
    /\ observed = awsInst[Head(todo)]
    /\ ReadsAs(Head(todo)) = Pending
    /\ \A k \in DOMAIN calls : calls[k].op \notin {"ensure_running", "start_instances"}

(***************************************************************************)
(* The in-memory doubles against the adapters.                             *)
(***************************************************************************)
\* the records of a hosted zone as a MemDnsZoneState holds records: one
\* target for each name that has a record set
AsMemRecords(sets) ==
    [n \in Fqdns |->
        IF \E r \in sets : r.name = n
        THEN Some(LET r == CHOOSE q \in sets : q.name = n IN [kind |-> r.type_, value |-> r.value])
        ELSE None]

\* the instance as a MemInstanceState holds one that is running or stopped
AsMemInstance(i) ==
    [instance_type |-> awsInst[i].instance_type, ip_addr |-> MemIp(i), is_running |-> ReadsAs(i) = Running]

RunningOrStopped(i) == ReadsAs(i) \in {Running, Stopped}

\* C28 as stated: the adapters do what the doubles do. On an instance that
\* reads Running or Stopped the adapter decides on a change of type as
\* MemInstance does, ensure_running and ensure_stopped return Ok at once
\* where the instance is already as wanted and request the change where it
\* is not, and what they return Ok with is the state MemInstance ends in; an
\* authorize or revoke has on the rules the effect of MemFirewall's add or
\* remove; and, unless a request itself fails, bind has on the records of the
\* zone the effect of MemDnsZone::bind, and unbind that of MemDnsZone::unbind.
C28_Original ==
    [][(DispatchStep /\ backend = "aws") =>
       /\ (pc = "type_read" /\ RunningOrStopped(Head(todo)) /\ result' # DescribeFailed) =>
            LET m == mem_type_decision(AsMemInstance(Head(todo)), cmd.instance_type.some)
            IN  /\ m = "same" => pc' = "run_read" /\ instVars' = instVars
                /\ m = "change" => pc' = "type_change"
                /\ m = "reject" => result' = Some(Err(MustBeStopped)) /\ instVars' = instVars
       /\ (pc = "type_change" /\ "err" \notin {Issued[k].ret : k \in DOMAIN Issued}) =>
            awsInst'[Head(todo)].instance_type = cmd.instance_type.some
       /\ (pc = "run_read" /\ ReadsAs(Head(todo)) = Stopped /\ result' # DescribeFailed) => pc' = "run_start"
       /\ (pc = "stop_read" /\ ReadsAs(Head(todo)) = Running /\ result' # DescribeFailed) => pc' = "stop_stop"
       /\ \A running \in RunningReturned :
            /\ FromU8(AsU8(awsInst'[Head(todo)].code)) = Running
            /\ running.instance_type = AsMemInstance(Head(todo)).instance_type
       /\ (\E k \in DOMAIN Issued : Issued[k].op = "ensure_stopped" /\ Issued[k].ret = "ok") =>
            /\ FromU8(AsU8(awsInst'[Head(todo)].code)) = Stopped
            /\ awsInst'[Head(todo)].instance_type = awsInst[Head(todo)].instance_type
       /\ pc = "idle" =>
            \A perms \in SUBSET ip_permissions(ExistingRules), rules \in SUBSET Rules :
                /\ parsed_rules(Authorize(perms, ip_permissions(rules))) = MemAdd(parsed_rules(perms), rules)
                /\ parsed_rules(Revoke(perms, ip_permissions(rules))) = MemRemove(parsed_rules(perms), rules)
       /\ (pc = "dns_bind" /\ ~RequestFailed) =>
            /\ result' # Some(Err("failed to UPSERT DNS entry"))
            /\ AsMemRecords(awsRecordSets'[dns_zone.some]) =
                  MemBind(AsMemRecords(awsRecordSets[dns_zone.some]), instFqdn[Head(todo)].some,
                          Held(running_state.some.addr))
       /\ (pc = "dns_unbind" /\ ~RequestFailed) =>
            /\ AsMemRecords(awsRecordSets'[dns_zone.some]) \in
                  {AsMemRecords(awsRecordSets[dns_zone.some]),
                   MemUnbind(AsMemRecords(awsRecordSets[dns_zone.some]), instFqdn[Head(todo)].some)}
            /\ pc' = "stop_read" => AsMemRecords(awsRecordSets'[dns_zone.some])[instFqdn[Head(todo)].some] = None
      ]_vars

(***************************************************************************)
(* Start with a desired type while another client may start the instance.  *)
(***************************************************************************)
InitRace ==
    /\ backend \in {"mem", "aws"}
    /\ external \in BOOLEAN
    /\ displayed = None /\ rendered = None /\ reparsed = None
    /\ fwName \in FwNamings
    /\ instName = 1 :> "a" @@ 2 :> "b"
    /\ zoneName = 1 :> ExampleCom @@ 2 :> SubExampleCom @@ 3 :> ExampleNet
    /\ NoRules
    /\ NoRecords
    /\ instFqdn = [i \in InstIds |-> None]
    /\ addressing = [i \in InstIds |-> {"ip", "dns"}]
    /\ \E code \in {0, 16, 80}, types \in [InstIds -> InstanceTypes] :
        IF backend = "mem"
        THEN /\ code \in {16, 80}
             /\ memInst = [i \in InstIds |-> [instance_type |-> types[i], ip_addr |-> MemIp(i),
                                               is_running |-> i = 1 /\ code = 16]]
             /\ awsInst = [i \in InstIds |-> Description(80, "t2.medium", None, None)]
        ELSE /\ awsInst = [i \in InstIds |-> Described(i, IF i = 1 THEN code ELSE 80, types[i])]
             /\ memInst = [i \in InstIds |-> [instance_type |-> "t2.medium", ip_addr |-> MemIp(i),
                                               is_running |-> FALSE]]
    /\ InitDispatcher

NextRace ==
    \/ DispatchStart
    \/ TypeEnsure
    \/ TypeChange
    \/ RunRead
    \/ RunStart
    \/ \E i \in InstIds : ProviderBoot(i)
    \/ \E i \in InstIds : ExternalStart(i)

SpecRace == InitRace /\ [][NextRace]_vars

\* C29: the request for a change of type is made in a step of its own, after
\* the step that read the state, and only after a read that reported Stopped;
\* when no other client acts on the instance it is still Stopped when the
\* request is made; the request is made on an instance that is not Stopped
\* only when another client has changed it since the read, and the provider
\* then refuses it and the type stays as it was.
C29_CheckThenAct ==
    [][(DispatchStep /\ "modify_instance_attribute" \in IssuedOps) =>
            /\ pc = "type_change"
            /\ state.instance_state_code = Stopped
            /\ FromU8(AsU8(observed.code)) = Stopped
            /\ ~external => ReadsAs(Head(todo)) = Stopped
            /\ ReadsAs(Head(todo)) # Stopped =>
                 /\ external
                 /\ awsInst[Head(todo)] # observed
                 /\ Issued[1].ret # "ok"
                 /\ instVars' = instVars
      ]_vars

\* the instance was read as Stopped, another client started it, and the
\* request for the change of type was made on it and refused
C29_Witness ==
    /\ external
    /\ backend = "aws"
    /\ pc = "done"
    /\ state # None
    /\ state.instance_state_code = Stopped
    /\ ReadsAs(Head(todo)) \in {Pending, Running}
    /\ \E k \in DOMAIN calls : calls[k].op = "modify_instance_attribute" /\ calls[k].ret = "refused"

(***************************************************************************)
(* iprules.rs: port ranges and services written as text and read back.     *)
(* A text is the sequence of its characters.                               *)
(***************************************************************************)
RECURSIVE u16_to_string(_)
\* write!(f, "{}", n) for a u16: decimal, no sign, no leading zero
u16_to_string(n) ==
    LET digits == <<"0", "1", "2", "3", "4", "5", "6", "7", "8", "9">>
    IN  IF n < 10 THEN <<digits[n + 1]>> ELSE u16_to_string(n \div 10) \o <<digits[(n % 10) + 1]>>

\* x.parse::<u16>(): None for an error; an optional "+", then one or more
\* decimal digits whose value fits in 16 bits
parse_u16(x) ==
    LET digits == <<"0", "1", "2", "3", "4", "5", "6", "7", "8", "9">>
        body == IF x # <<>> /\ Head(x) = "+" THEN Tail(x) ELSE x
        RECURSIVE acc(_, _)
        acc(rest, n) ==
            IF rest = <<>>
            THEN Some(n)
            ELSE IF \A d \in 1..10 : digits[d] # Head(rest)
                 THEN None
                 ELSE LET m == n * 10 + (CHOOSE d \in 0..9 : digits[d + 1] = Head(rest))
                      IN  IF m >= 2^16 THEN None ELSE acc(Tail(rest), m)
    IN  IF body = <<>> THEN None ELSE acc(body, 0)

RECURSIVE split(_, _)
\* s.split(c): the pieces of s between the occurrences of c, empty pieces included
split(s, c) ==
    IF \A k \in 1..Len(s) : s[k] # c
    THEN <<s>>
    ELSE LET k == CHOOSE j \in 1..Len(s) : s[j] = c /\ \A h \in 1..(j - 1) : s[h] # c
         IN  <<SubSeq(s, 1, k - 1)>> \o split(SubSeq(s, k + 1, Len(s)), c)

IpPortRange_fmt(r) ==
    IF r.from = r.to
    THEN u16_to_string(r.from)
    ELSE u16_to_string(r.from) \o <<"-">> \o u16_to_string(r.to)

\* mutant: a single number is not taken as a range
IpPortRange_from_str_pairOnly(s) ==
    LET parts == [k \in DOMAIN split(s, "-") |-> parse_u16(split(s, "-")[k])]
    IN  IF \E k \in DOMAIN parts : parts[k] = None
        THEN Err("invalid IP port range")
        ELSE IF Len(parts) = 2
             THEN [ok |-> IpPortRange(parts[1].some, parts[2].some)]
             ELSE Err("invalid IP port range")

IpPortRange_from_str(s) ==
    LET parts == [k \in DOMAIN split(s, "-") |-> parse_u16(split(s, "-")[k])]
    IN  IF \E k \in DOMAIN parts : parts[k] = None
        THEN Err("invalid IP port range")
        ELSE IF Len(parts) = 1
             THEN [ok |-> IpPortRange(parts[1].some, parts[1].some)]
             ELSE IF Len(parts) = 2
                  THEN [ok |-> IpPortRange(parts[1].some, parts[2].some)]
                  ELSE Err("invalid IP port range")

IpService_fmt(v) ==
    IF v.tag = "tcp"
    THEN IpPortRange_fmt(v.range) \o <<"/", "t", "c", "p">>
    ELSE IpPortRange_fmt(v.range) \o <<"/", "u", "d", "p">>

IpService_from_str(s) ==
    LET parts == split(s, "/")
    IN  IF Len(parts) = 2
        THEN IF parts[2] = <<"t", "c", "p">>
             THEN IF "ok" \in DOMAIN IpPortRange_from_str(parts[1])
                  THEN [ok |-> Tcp(IpPortRange_from_str(parts[1]).ok)]
                  ELSE Err("invalid IP service")
             ELSE IF parts[2] = <<"u", "d", "p">>
                  THEN IF "ok" \in DOMAIN IpPortRange_from_str(parts[1])
                       THEN [ok |-> Udp(IpPortRange_from_str(parts[1]).ok)]
                       ELSE Err("invalid IP service")
                  ELSE Err("invalid IP service")
        ELSE Err("invalid IP service")

\* the values given to test_display_and_parse, and others around them
InitText ==
    /\ \E from, to \in {0, 1, 9, 10, 22, 80, 443, 65535} :
         displayed \in {IpPortRange(from, to), Tcp(IpPortRange(from, to)), Udp(IpPortRange(from, to))}
    /\ rendered = None
    /\ reparsed = None
    /\ backend = "mem"
    /\ external = FALSE
    /\ fwName = [f \in FwIds |-> "a"]
    /\ instName = 1 :> "a" @@ 2 :> "b"
    /\ zoneName = 1 :> ExampleCom @@ 2 :> SubExampleCom @@ 3 :> ExampleNet
    /\ NoRules
    /\ NoRecords
    /\ instFqdn = [i \in InstIds |-> None]
    /\ addressing = [i \in InstIds |-> {"ip", "dns"}]
    /\ memInst = [i \in InstIds |-> [instance_type |-> "t2.medium", ip_addr |-> MemIp(i),
                                      is_running |-> FALSE]]
    /\ awsInst = [i \in InstIds |-> Description(80, "t2.medium", None, None)]
    /\ InitDispatcher

\* test_display_and_parse: v.to_string()
DisplayValue ==
    /\ rendered = None
    /\ rendered' = Some(IF "tag" \in DOMAIN displayed
                        THEN IpService_fmt(displayed)
                        ELSE IpPortRange_fmt(displayed))
    /\ UNCHANGED <<displayed, reparsed, backend, fwName, instName, instFqdn, addressing,
                   zoneName, external>>
    /\ UNCHANGED <<fwVars, instVars, dnsVars, fwLocals, instLocals, dispVars>>

\* test_display_and_parse: s.parse(), at the type of v
ParseText ==
    /\ rendered # None
    /\ reparsed = None
    /\ reparsed' = Some(IF "tag" \in DOMAIN displayed
                        THEN IpService_from_str(rendered.some)
                        ELSE IpPortRange_from_str(rendered.some))
    /\ UNCHANGED <<displayed, rendered, backend, fwName, instName, instFqdn, addressing,
                   zoneName, external>>
    /\ UNCHANGED <<fwVars, instVars, dnsVars, fwLocals, instLocals, dispVars>>

NextText == DisplayValue \/ ParseText

SpecText == InitText /\ [][NextText]_vars

\* C30: a port range or a service written as text and read back is the value
\* that was written: a range whose ends are equal is written as the one
\* number, any other range as "from-to", and a service as its range followed
\* by "/tcp" or "/udp".
C30_DisplayThenParse ==
    /\ reparsed # None => reparsed = Some([ok |-> displayed])
    /\ rendered # None =>
         LET r == IF "tag" \in DOMAIN displayed THEN displayed.range ELSE displayed
             parts == split(split(rendered.some, "/")[1], "-")
         IN  /\ Len(parts) = IF r.from = r.to THEN 1 ELSE 2
             /\ parse_u16(parts[1]) = Some(r.from)
             /\ parse_u16(parts[Len(parts)]) = Some(r.to)
             /\ "tag" \in DOMAIN displayed <=> Len(split(rendered.some, "/")) = 2
    /\ (displayed = IpPortRange(1, 1) /\ rendered # None) => rendered.some = <<"1">>
    /\ (displayed = IpPortRange(1, 10) /\ rendered # None) => rendered.some = <<"1", "-", "1", "0">>
    /\ (displayed = Tcp(IpPortRange(1, 65535)) /\ rendered # None) =>
         rendered.some = <<"1", "-", "6", "5", "5", "3", "5", "/", "t", "c", "p">>
    /\ (displayed = Udp(IpPortRange(1, 1)) /\ rendered # None) =>
         rendered.some = <<"1", "/", "u", "d", "p">>

\* a range with equal ends inside a service has been written as one number
\* and read back
C30_Witness ==
    /\ displayed = Udp(IpPortRange(443, 443))
    /\ rendered = Some(<<"4", "4", "3", "/", "u", "d", "p">>)
    /\ reparsed = Some([ok |-> Udp(IpPortRange(443, 443))])

(***************************************************************************)
(* One iteration of the loop of AwsInstance::ensure_running.               *)
(***************************************************************************)
\* the provider requests that change something, among the calls of the step under way
MutatingRequests ==
    {k \in DOMAIN Issued : Issued[k].op \in {"start_instances", "stop_instances", "modify_instance_attribute"}}

\* C31: an iteration of ensure_running is one read of the state followed by
\* at most one request: the step that reads issues no request and goes on to
\* the request only when it read Stopped; on Pending or Stopping it issues
\* nothing and reads again; the request is one start request, made on the
\* state that was read as Stopped without another read, and is followed by a
\* new read; no step of ensure_running requests a stop or a change of type.
C31_OneRequestPerRead ==
    [][(DispatchStep /\ backend = "aws" /\ pc \in {"run_read", "run_start"}) =>
            /\ Cardinality(MutatingRequests) <= 1
            /\ \A k \in DOMAIN Issued : Issued[k].op \notin {"stop_instances", "modify_instance_attribute"}
            /\ pc = "run_read" =>
                 /\ MutatingRequests = {}
                 /\ instVars' = instVars
                 /\ result' # DescribeFailed =>
                      /\ state' = get_state(awsInst[Head(todo)])
                      /\ observed' = awsInst[Head(todo)]
                      /\ pc' = "run_start" <=> state'.instance_state_code = Stopped
                      /\ state'.instance_state_code \in {Pending, Stopping} =>
                           pc' = "run_read" /\ Issued = <<>> /\ result' = None
            /\ pc = "run_start" =>
                 /\ state.instance_state_code = Stopped
                 /\ <<state, observed>>' = <<state, observed>>
                 /\ Cardinality(MutatingRequests) = 1
                 /\ \A k \in MutatingRequests :
                      /\ Issued[k].op = "start_instances"
                      /\ Issued[k].res = Head(todo)
                      /\ pc' = "run_read" <=> Issued[k].ret = "ok"
                 /\ pc' \in {"run_read", "done"}
      ]_vars

\* Start found the instance on its way down, waited for it to be stopped and
\* then asked for its start
C31_Witness ==
    /\ backend = "aws"
    /\ runs = 1
    /\ cmd.kind = "start"
    /\ pc = "run_read"
    /\ todo # <<>>
    /\ prev.awsInst[Head(todo)].code = 64
    /\ state # None
    /\ state.instance_state_code = Stopped
    /\ ReadsAs(Head(todo)) = Pending
    /\ calls[Len(calls)] = Call("start_instances", Head(todo), {}, "ok")

(***************************************************************************)
(* Start and Stop where zones may be missing and may be created later.     *)
(***************************************************************************)
InitLate ==
    /\ backend \in {"mem", "aws"}
    /\ external \in BOOLEAN
    /\ displayed = None /\ rendered = None /\ reparsed = None
    /\ fwName \in FwNamings
    /\ instName = 1 :> "a" @@ 2 :> "b"
    /\ zoneName \in {[z \in ZoneIds |-> <<>>], 1 :> ExampleCom @@ 2 :> <<>> @@ 3 :> <<>>}
    /\ NoRules
    /\ NoRecords
    /\ instFqdn \in {[i \in InstIds |-> None], 1 :> Some(InstSubExampleCom) @@ 2 :> None}
    /\ \E code \in {16, 80}, given \in {{"ip"}, {"ip", "dns"}} :
        /\ addressing = 1 :> given @@ 2 :> {"ip", "dns"}
        /\ IF backend = "mem"
           THEN /\ given = {"ip"}
                /\ memInst = [i \in InstIds |-> [instance_type |-> "t2.medium", ip_addr |-> MemIp(i),
                                                  is_running |-> i = 1 /\ code = 16]]
                /\ awsInst = [i \in InstIds |-> Description(80, "t2.medium", None, None)]
           ELSE /\ awsInst = [i \in InstIds |-> Described(i, IF i = 1 THEN code ELSE 80, "t2.medium")]
                /\ memInst = [i \in InstIds |-> [instance_type |-> "t2.medium", ip_addr |-> MemIp(i),
                                                  is_running |-> FALSE]]
    /\ InitDispatcher

NextLate ==
    \/ NextInst
    \/ CreateDnsZone(2)

SpecLate == InitLate /\ [][NextLate]_vars

\* a step of dispatch on instances, the steps of sync_dns included
InstanceStep == DispatchStep \/ DnsFind \/ DnsBind \/ DnsUnbind

\* C32: while a Start or Stop works on an instance that declares no Fqdn no
\* zone is looked up, no bind and no unbind is made and no record of any zone
\* changes; a Start or Stop whose instances all declare no Fqdn logs no call
\* on a zone from beginning to end and does not end with an error of the
\* zone lookup, whether or not any zone exists.
C32_NoFqdnNoDns ==
    [][InstanceStep =>
            /\ (todo # <<>> /\ pc \notin {"idle", "done"} /\ instFqdn[Head(todo)] = None) =>
                 /\ pc \notin {"dns_find", "dns_bind", "dns_unbind"}
                 /\ pc' \notin {"dns_find", "dns_bind", "dns_unbind"} \/ todo' # todo
                 /\ IssuedOps \cap ({"find_authoritative_zone"} \cup DnsOps) = {}
                 /\ dnsVars' = dnsVars
                 /\ dns_zone' = dns_zone
            /\ (\A i \in InstIds : instName[i] \in cmd'.names => instFqdn[i] = None) =>
                 /\ \A k \in DOMAIN calls' : calls'[k].op \notin {"find_authoritative_zone"} \cup DnsOps
                 /\ dns_zone' = None
                 /\ dnsVars' = dnsVars
                 /\ result' \notin {Some(Err("could not find authoritative DNS zone")),
                                    Some(Err("failed to list hosted zones"))}
                 /\ (backend = "mem" /\ pc' = "done" /\ cmd'.kind = "stop") => result' = Some(Ok)
      ]_vars

\* where no zone exists, a Start and then a Stop of instances without an Fqdn
\* have both returned Ok
C32_Witness ==
    /\ \A z \in ZoneIds : zoneName[z] = <<>>
    /\ \A i \in InstIds : instFqdn[i] = None
    /\ runs = 2
    /\ pc = "done"
    /\ cmd = [kind |-> "stop", names |-> {"a", "b"}]
    /\ result = Some(Ok)
    /\ prev.cmd.kind = "start"
    /\ prev.cmd.names = {"a", "b"}
    /\ prev.result = Some(Ok)
    /\ \A i \in InstIds : IsStopped(i)
    /\ \E i \in InstIds : prev.memInst[i].is_running \/ prev.awsInst[i].code = 16

(***************************************************************************)
(* find_authoritative_zone against the order of the listing.               *)
(***************************************************************************)
\* what find_authoritative_zone gives dispatch in the step under way agrees
\* with what it computes from the listing `zones`
AgreesWith(zones) ==
    LET z == find_authoritative_zone(instFqdn[Head(todo)].some, zones)
    IN  IF z = None
        THEN result' = Some(Err("could not find authoritative DNS zone"))
        ELSE result' = None /\ dns_zone' = z

\* C33 as stated: the zone find_authoritative_zone returns for a name is the
\* same for every order in which list_zones may return the zones there are.
C33_Original ==
    [][(DnsFind /\ result' # Some(Err("failed to list hosted zones"))) =>
            \A zones \in list_zones : AgreesWith(zones)
      ]_vars

\* C33 where the zones listed have names that differ: the zone returned does
\* not depend on the order of the listing; and whatever the names, the name
\* of the zone returned does not depend on it.
C33_AmongDistinctNames ==
    [][(DnsFind /\ result' # Some(Err("failed to list hosted zones"))) =>
            /\ (\A y, z \in ZoneIds : y # z => zoneName[y] # zoneName[z]) =>
                 \A zones \in list_zones : AgreesWith(zones)
            /\ \A zones \in list_zones :
                 LET z == find_authoritative_zone(instFqdn[Head(todo)].some, zones)
                 IN  IF z = None
                     THEN result' = Some(Err("could not find authoritative DNS zone"))
                     ELSE result' = None /\ zoneName[dns_zone'.some] = zoneName[z.some]
      ]_vars

(***************************************************************************)
(* Start and Stop where no call fails, the program keeps taking steps, and *)
(* the provider completes the transitions it has begun.                    *)
(***************************************************************************)
InitLive ==
    /\ backend \in {"mem", "aws"}
    /\ InitNames
    /\ NoRules
    /\ NoRecords
    /\ instFqdn = [i \in InstIds |-> None]
    /\ \E code \in {0, 16, 64, 80}, given \in {{"ip"}, {"dns"}, {"ip", "dns"}} :
        /\ addressing = 1 :> given @@ 2 :> {"ip"}
        /\ IF backend = "mem"
           THEN /\ code \in {16, 80}
                /\ given = {"ip"}
                /\ memInst = [i \in InstIds |-> [instance_type |-> "t2.medium", ip_addr |-> MemIp(i),
                                                  is_running |-> i = 1 /\ code = 16]]
                /\ awsInst = [i \in InstIds |-> Description(80, "t2.medium", None, None)]
           ELSE /\ awsInst = [i \in InstIds |-> Described(i, IF i = 1 THEN code ELSE 80, "t2.medium")]
                /\ memInst = [i \in InstIds |-> [instance_type |-> "t2.medium", ip_addr |-> MemIp(i),
                                                  is_running |-> FALSE]]
    /\ InitDispatcher

\* the steps of dispatch in which every call returns Ok
DispatchLive ==
    \/ DispatchStart /\ ~Failing
    \/ DispatchStop /\ ~Failing
    \/ TypeEnsure /\ ~Failing
    \/ TypeChange /\ ~Failing
    \/ RunRead /\ ~Failing
    \/ RunStart /\ ~Failing
    \/ StopRead /\ ~Failing
    \/ StopStop /\ ~Failing

NextLive ==
    \/ DispatchLive
    \/ \E i \in InstIds : ProviderBoot(i)
    \/ \E i \in InstIds : ProviderHalt(i)

\* the program keeps taking steps; the provider completes each transition
SpecLive ==
    /\ InitLive
    /\ [][NextLive]_vars
    /\ WF_vars(DispatchLive)
    /\ \A i \in InstIds : WF_vars(ProviderBoot(i)) /\ WF_vars(ProviderHalt(i))

\* ensure_running (ensure_stopped) has returned Ok for instance i in this dispatch
HasReturned(op, i) == \E k \in DOMAIN calls : calls[k].op = op /\ calls[k].res = i /\ calls[k].ret = "ok"

\* C34: when no call fails, the program keeps running and the provider brings
\* a pending instance up and a stopping instance down, every ensure_running
\* that is entered returns with the instance Running and every
\* ensure_stopped that is entered returns with the instance Stopped, whatever
\* of Pending, Running, Stopping and Stopped the instance was in.
C34_EventuallyAsWanted ==
    \A i \in InstIds :
        /\ (pc \in {"run_read", "run_start"} /\ Head(todo) = i)
              ~> (HasReturned("ensure_running", i) /\ IsRunning(i))
        /\ (pc \in {"stop_read", "stop_stop"} /\ Head(todo) = i)
              ~> (HasReturned("ensure_stopped", i) /\ IsStopped(i))

\* a Start has returned with the instance running, and the Stop that followed
\* has requested the stop and returned with it stopped
C34_Witness ==
    /\ backend = "aws"
    /\ runs = 2
    /\ pc = "done"
    /\ result = Some(Ok)
    /\ cmd.kind = "stop"
    /\ prev.cmd.kind = "start"
    /\ prev.result = Some(Ok)
    /\ prev.awsInst[1].code = 16
    /\ HasReturned("ensure_stopped", 1)
    /\ IsStopped(1)
    /\ \E k \in DOMAIN calls : calls[k].op = "stop_instances" /\ calls[k].res = 1

(***************************************************************************)
(* Stop when the unbinding of the name fails.                              *)
(***************************************************************************)
\* instance i is as it was when this dispatch began, but for a transition of
\* the provider's own (pending to running, stopping to stopped)
AsWhenDispatchBegan(i) ==
    /\ memInst'[i] = prev.memInst[i]
    /\ \/ awsInst'[i] = prev.awsInst[i]
       \/ AsU8(prev.awsInst[i].code) = 0 /\ awsInst'[i] = Described(i, 16, prev.awsInst[i].instance_type)
       \/ AsU8(prev.awsInst[i].code) = 64 /\ awsInst'[i] = Described(i, 80, prev.awsInst[i].instance_type)

\* C35: when, in a Stop, the lookup of the zone or the unbind fails for an
\* instance, dispatch ends in that step with the error: ensure_stopped has
\* not been called for the instance, no stop has been requested for it, and
\* its power state and type are those it had when the dispatch began.
C35_FailedUnbindLeavesRunning ==
    [][(InstanceStep /\ pc \in {"dns_find", "dns_unbind"} /\ cmd.kind = "stop" /\ Failing) =>
            /\ pc' = "done"
            /\ IsErr(result')
            /\ todo' = todo
            /\ instVars' = instVars
            /\ \A k \in DOMAIN calls' :
                 calls'[k].res = Head(todo) => calls'[k].op \notin {"ensure_stopped", "stop_instances"}
            /\ AsWhenDispatchBegan(Head(todo))
      ]_vars

\* a Stop whose DELETE failed has returned the error and its instance runs on
C35_Witness ==
    /\ backend = "aws"
    /\ cmd # None
    /\ cmd.kind = "stop"
    /\ pc = "done"
    /\ result = Some(Err("failed to DELETE DNS entry"))
    /\ IsRunning(Head(todo))
    /\ \A k \in DOMAIN calls : calls[k].op \notin {"ensure_stopped", "stop_instances"}

\* a Stop that found no zone for the name has returned the error and its
\* instance runs on
C35_WitnessNoZone ==
    /\ cmd # None
    /\ cmd.kind = "stop"
    /\ pc = "done"
    /\ result = Some(Err("could not find authoritative DNS zone"))
    /\ IsRunning(Head(todo))

(***************************************************************************)
(* All four commands where two resources have one name, or where a name of *)
(* the list is the name of nothing.                                        *)
(***************************************************************************)
InitShared ==
    /\ backend \in {"mem", "aws"}
    /\ external = FALSE
    /\ displayed = None /\ rendered = None /\ reparsed = None
    /\ \E second \in {"a", "d"} :
         /\ fwName = 1 :> "a" @@ 2 :> second
         /\ instName = 1 :> "a" @@ 2 :> second
    /\ zoneName = 1 :> ExampleCom @@ 2 :> SubExampleCom @@ 3 :> ExampleNet
    /\ NoRecords
    /\ instFqdn = [i \in InstIds |-> None]
    /\ addressing = [i \in InstIds |-> {"ip"}]
    /\ \E code \in {16, 80} :
        IF backend = "mem"
        THEN /\ code = 16
             /\ memRules = [f \in FwIds |-> SecondRules]
             /\ sgPerms = [f \in FwIds |-> {}]
             /\ memInst = [i \in InstIds |-> [instance_type |-> "t2.medium", ip_addr |-> MemIp(i),
                                               is_running |-> code = 16]]
             /\ awsInst = [i \in InstIds |-> Description(80, "t2.medium", None, None)]
        ELSE /\ sgPerms = [f \in FwIds |-> ip_permissions(SecondRules)]
             /\ memRules = [f \in FwIds |-> {}]
             /\ awsInst = [i \in InstIds |-> Described(i, code, "t2.medium")]
             /\ memInst = [i \in InstIds |-> [instance_type |-> "t2.medium", ip_addr |-> MemIp(i),
                                               is_running |-> FALSE]]
    /\ InitDispatcher

NextShared ==
    \/ DispatchOpen
    \/ DispatchClose
    \/ FwList
    \/ FwAdd
    \/ FwRemove
    \/ DispatchStart
    \/ DispatchStop
    \/ TypeEnsure
    \/ TypeChange
    \/ RunRead
    \/ RunStart
    \/ StopRead
    \/ StopStop
    \/ \E i \in InstIds : ProviderBoot(i)
    \/ \E i \in InstIds : ProviderHalt(i)

SpecShared == InitShared /\ [][NextShared]_vars

\* the list request of the dispatch that begins in the step under way returned Ok
ListedOk == pc \in {"idle", "done"} /\ calls'[1].ret = "ok"

\* C36: a command whose names are the names of nothing returns Ok in the
\* step that lists (unless the list request itself fails), logs nothing but
\* the list call and changes no rule set, instance or record; a name that is
\* the name of nothing adds nothing to the list and raises no error; the
\* list holds every resource that has one of the names, each once, also when
\* two have the same name, and a command that returns Ok has reconciled
\* every firewall, or brought to the wanted power state every instance, that
\* has one of the names.
C36_UnmatchedIgnoredSharedProcessed ==
    [][CommandStep =>
       /\ ListedOk =>
            /\ Range(todo') = NamedBy(cmd')
            /\ Len(todo') = Cardinality(NamedBy(cmd'))
            /\ result' \in {None, Some(Ok)}
       /\ (ListedOk /\ NamedBy(cmd') = {}) =>
            /\ pc' = "done"
            /\ result' = Some(Ok)
            /\ Len(calls') = 1
            /\ <<fwVars, instVars, dnsVars>>' = <<fwVars, instVars, dnsVars>>
       /\ (pc' = "done" /\ result' = Some(Ok)) =>
            /\ cmd'.kind \in {"open", "close"} =>
                 \A f \in NamedBy(cmd') : f \in synced' /\ ActualRules(f)' = desired_rules'
            /\ cmd'.kind = "start" =>
                 \A i \in NamedBy(cmd') :
                    \E k \in DOMAIN calls' : calls'[k].op = "ensure_running" /\ calls'[k].res = i /\ calls'[k].ret = "ok"
            /\ cmd'.kind = "stop" =>
                 \A i \in NamedBy(cmd') :
                    /\ \E k \in DOMAIN calls' : calls'[k].op = "ensure_stopped" /\ calls'[k].res = i /\ calls'[k].ret = "ok"
                    /\ IF backend = "mem" THEN ~memInst'[i].is_running
                       ELSE FromU8(AsU8(awsInst'[i].code)) = Stopped
      ]_vars

\* two firewalls named "a" held rules; a Close of "a" and "b" has emptied
\* both and returned Ok, "b" being the name of nothing
C36_Witness ==
    /\ fwName = 1 :> "a" @@ 2 :> "a"
    /\ cmd = [kind |-> "close", names |-> {"a", "b"}]
    /\ runs = 1
    /\ pc = "done"
    /\ result = Some(Ok)
    /\ synced = {1, 2}
    /\ \A f \in FwIds : ActualRules(f) = {}
    /\ \A f \in FwIds : prev.memRules[f] \cup prev.sgPerms[f] # {}

\* a Stop of "c", the name of no instance, has returned Ok after the list call
\* alone, and the instances run on
C36_WitnessNoMatch ==
    /\ cmd = [kind |-> "stop", names |-> {"c"}]
    /\ pc = "done"
    /\ result = Some(Ok)
    /\ Len(calls) = 1
    /\ \A i \in InstIds : IsRunning(i)


(***************************************************************************)
(* An Open that names no network or no protocol.                           *)
(***************************************************************************)
\* the Open under way names no network or no protocol
EmptyOpen ==
    /\ cmd # None
    /\ cmd.kind = "open"
    /\ (cmd.ip_cidrs = <<>> \/ cmd.ip_protocols = <<>>)

\* C37: an Open whose list of networks or whose list of protocols is empty
\* builds the empty desired rule set and acts as a Close does: it asks to add
\* nothing and to remove everything the firewall was read to hold, every
\* firewall it has reconciled holds no ingress rule, and once it has returned
\* Ok every firewall it names has been reconciled and holds none.
C37_EmptyOpenIsClose ==
    EmptyOpen =>
        /\ desired_rules = {}
        /\ \A k \in DOMAIN calls :
             /\ calls[k].op = "add_ingress_rules" => calls[k].arg = {}
             /\ calls[k].op = "remove_ingress_rules" => calls[k].arg = SnapshotRules(calls[k].res)
             /\ calls[k].op # "authorize_security_group_ingress"
        /\ \A f \in synced :
             /\ ActualRules(f) = {}
             /\ backend = "aws" => sgPerms[f] = {}
        /\ result = Some(Ok) => \A f \in NamedFirewalls : f \in synced /\ ActualRules(f) = {}

\* an Open that names a network and no protocol has returned Ok after it
\* emptied both firewalls, one of which held rules
C37_Witness ==
    /\ EmptyOpen
    /\ cmd.ip_cidrs # <<>>
    /\ result = Some(Ok)
    /\ synced = FwIds
    /\ \E f \in synced : SnapshotRules(f) # {}
    /\ \A f \in FwIds : ActualRules(f) = {}

\* an Open that names a protocol and no network has returned Ok after it
\* emptied a firewall that held rules
C37_WitnessNoCidr ==
    /\ EmptyOpen
    /\ cmd.ip_protocols # <<>>
    /\ result = Some(Ok)
    /\ \E f \in synced : SnapshotRules(f) # {} /\ ActualRules(f) = {}


(***************************************************************************)
(* The zone a sync writes to.                                              *)
(***************************************************************************)
\* the zones whose records differ after the step under way
ZonesChanged == {z \in ZoneIds : memRecords'[z] # memRecords[z] \/ awsRecordSets'[z] # awsRecordSets[z]}

\* the last find_authoritative_zone this dispatch has logged
LastFind ==
    LET finds == {k \in DOMAIN calls : calls[k].op = "find_authoritative_zone"}
    IN  IF finds = {} THEN None ELSE Some(calls[CHOOSE k \in finds : \A j \in finds : j <= k])

\* whether zone z holds a record for the name
HoldsRecordFor(z, fqdn) ==
    IF backend = "mem"
    THEN memRecords[z][fqdn] # None
    ELSE \E r \in awsRecordSets[z] : r.name = fqdn

\* C38: the zone a sync works on is the one find_authoritative_zone returns
\* from the zones listed at that sync, and a step changes the records of no
\* zone but that one: whatever another zone holds stays, a record of the same
\* name bound by an earlier Start included.
C38_OnlyZoneFoundChanges ==
    [][/\ (DnsFind /\ pc' \in {"dns_bind", "dns_unbind"}) =>
            /\ dns_zone' # None
            /\ \E zones \in list_zones :
                  dns_zone' = find_authoritative_zone(instFqdn[Head(todo)].some, zones)
       /\ \A z \in ZonesChanged :
            /\ pc \in {"dns_bind", "dns_unbind"}
            /\ dns_zone = Some(z)
            /\ LastFind = Some(Call("find_authoritative_zone", Head(todo), z, "ok"))
      ]_vars

\* a Start bound the name in example.com, sub.example.com was created, and the
\* Stop that followed unbound in sub.example.com and returned Ok: example.com
\* still holds the record of the name
C38_Witness ==
    /\ runs = 2
    /\ pc = "done"
    /\ cmd.kind = "stop"
    /\ result = Some(Ok)
    /\ prev.cmd.kind = "start"
    /\ prev.result = Some(Ok)
    /\ zoneName[1] = ExampleCom
    /\ zoneName[2] = SubExampleCom
    /\ \E k \in DOMAIN calls : calls[k].op = "unbind" /\ calls[k].res = 2 /\ calls[k].ret = "ok"
    /\ HoldsRecordFor(1, InstSubExampleCom)
    /\ ~HoldsRecordFor(2, InstSubExampleCom)
    /\ IsStopped(1)


(***************************************************************************)
(* Open and Close while another holder changes the first firewall.         *)
(***************************************************************************)
InitOthers ==
    /\ backend \in {"mem", "aws"}
    /\ external = TRUE
    /\ displayed = None /\ rendered = None /\ reparsed = None
    /\ fwName = 1 :> "a" @@ 2 :> "b"
    /\ instName = 1 :> "a" @@ 2 :> "b"
    /\ zoneName = 1 :> ExampleCom @@ 2 :> SubExampleCom @@ 3 :> ExampleNet
    /\ StoppedInstances
    /\ NoRecords
    /\ \E first \in {{}, {IpIngressRule("9.9.9.9/32", Tcp(IpPortRange(22, 22)))}} :
        IF backend = "mem"
        THEN /\ memRules = 1 :> first @@ 2 :> {}
             /\ sgPerms = [f \in FwIds |-> {}]
        ELSE /\ sgPerms = 1 :> ip_permissions(first) @@ 2 :> {}
             /\ memRules = [f \in FwIds |-> {}]
    /\ InitDispatcher

NextOthers ==
    \/ DispatchOpen
    \/ DispatchClose
    \/ FwList
    \/ FwAdd
    \/ FwRemove
    \/ \E r \in OtherRules : ExternalAdd(1, r)
    \/ \E r \in OtherRules : ExternalRemove(1, r)

SpecOthers == InitOthers /\ [][NextOthers]_vars

\* the permissions the firewall held when this dispatch read it
SnapshotPerms(f) == IF backend = "aws" THEN snapshot[f].some ELSE {}

\* C39: whatever other holders of the firewall do between the steps of a
\* reconciliation, every removal it requests is of rules that were in the
\* rule set it read, every addition it requests is of rules of its desired
\* set, and no step of it takes away a rule the firewall holds that was not
\* in the rule set it read.
C39_RequestsWithinReadAndDesired ==
    [][(FwList \/ FwAdd \/ FwRemove) =>
            /\ \A k \in DOMAIN Issued :
                 /\ Issued[k].op = "remove_ingress_rules" =>
                      Issued[k].arg \subseteq SnapshotRules(Issued[k].res)
                 /\ Issued[k].op = "revoke_security_group_ingress" =>
                      Issued[k].arg \subseteq SnapshotPerms(Issued[k].res)
                 /\ Issued[k].op = "add_ingress_rules" =>
                      Issued[k].arg \subseteq desired_rules
                 /\ Issued[k].op = "authorize_security_group_ingress" =>
                      Issued[k].arg \subseteq ip_permissions(desired_rules)
            /\ desired_rules =
                 (IF cmd.kind = "open" THEN DesiredRules(cmd.ip_cidrs, cmd.ip_protocols) ELSE {})
            /\ \A f \in Reconciled :
                 /\ \A r \in ActualRules(f) \ SnapshotRules(f) : r \in ActualRules(f)'
                 /\ \A q \in sgPerms[f] \ SnapshotPerms(f) : q \in sgPerms'[f]
      ]_vars

\* a Close read the first firewall, another holder then added a rule to it,
\* and the Close removed what it had read and returned Ok: the rule added
\* in between is still there
C39_Witness ==
    /\ external
    /\ cmd # None
    /\ cmd.kind = "close"
    /\ result = Some(Ok)
    /\ 1 \in synced
    /\ SnapshotRules(1) # {}
    /\ \E k \in DOMAIN calls :
         calls[k].op = "remove_ingress_rules" /\ calls[k].res = 1 /\ calls[k].arg = SnapshotRules(1)
    /\ \E r \in OtherRules : r \notin SnapshotRules(1) /\ r \in ActualRules(1)

====
